---- MODULE Spec2Model ----
(***************************************************************************)
(* A model of the bytecode interpreter of src/src/runtime.rs               *)
(* (Interpreter::run).  Memory is bytes: the program image, the operand    *)
(* stack and the array buffers are sequences or functions of bytes, and    *)
(* every typed value is its little-endian byte string, so that u32 and u64 *)
(* keep their width.                                                       *)
(***************************************************************************)
EXTENDS Integers, Sequences, FiniteSets, TLC

\* `let v = e; F(v)`: e is evaluated once and F applied to its value
Let(e, F(_)) == CHOOSE r \in {F(v) : v \in {e}} : TRUE

(***************************************************************************)
(* Byte strings (little-endian, index 1 is the least significant byte).    *)
(***************************************************************************)
Zeros(n) == [i \in 1..n |-> 0]

RECURSIVE LE(_, _)
\* the w-byte little-endian encoding of the natural number n
LE(n, w) == IF w = 0 THEN <<>> ELSE <<n % 256>> \o LE(n \div 256, w - 1)

\* zero-extension of a byte string to w bytes (`as u32`, `as usize`)
ZeroExt(bs, w) == bs \o Zeros(w - Len(bs))

\* truncation of a byte string to its w low bytes (`as u8`, `as u16`)
Trunc(bs, w) == SubSeq(bs, 1, w)

IsZero(bs) == \A i \in 1..Len(bs) : bs[i] = 0

\* Natural numbers the model computes with stay below Huge; a byte string
\* whose value is Huge or more is represented by Huge itself (it is only
\* ever compared with the image length or the stack size, both far smaller).
Huge == 256 * 256 * 256

ToNat(bs) ==
    IF \E i \in 4..Len(bs) : bs[i] # 0 THEN Huge
    ELSE (IF Len(bs) >= 1 THEN bs[1] ELSE 0)
         + (IF Len(bs) >= 2 THEN 256 * bs[2] ELSE 0)
         + (IF Len(bs) >= 3 THEN 65536 * bs[3] ELSE 0)

\* a + b + c on equal-length byte strings; the result has one more byte,
\* the carry out
AddC(a, b, c) ==
    LET carry[i \in 0..Len(a)] ==
            IF i = 0 THEN c ELSE (a[i] + b[i] + carry[i - 1]) \div 256
    IN  [i \in 1..(Len(a) + 1) |->
            IF i <= Len(a) THEN (a[i] + b[i] + carry[i - 1]) % 256
            ELSE carry[Len(a)]]

\* a - b - c modulo 256^Len(a); the extra last byte is the borrow out
SubC(a, b, c) ==
    LET borrow[i \in 0..Len(a)] ==
            IF i = 0 THEN c
            ELSE IF a[i] - b[i] - borrow[i - 1] < 0 THEN 1 ELSE 0
    IN  [i \in 1..(Len(a) + 1) |->
            IF i <= Len(a) THEN (a[i] - b[i] - borrow[i - 1] + 256) % 256
            ELSE borrow[Len(a)]]

\* a * k + c for a byte k; the result has one more byte
ScaleC(a, k, c) ==
    LET carry[i \in 0..Len(a)] ==
            IF i = 0 THEN c ELSE (a[i] * k + carry[i - 1]) \div 256
    IN  [i \in 1..(Len(a) + 1) |->
            IF i <= Len(a) THEN (a[i] * k + carry[i - 1]) % 256
            ELSE carry[Len(a)]]

RECURSIVE MulFull(_, _)
\* the exact product a * b, Len(a) + Len(b) bytes long
MulFull(a, b) ==
    IF b = <<>> THEN Zeros(Len(a))
    ELSE Let(MulFull(a, Tail(b)), LAMBDA rest :
         Let(ScaleC(a, Head(b), 0), LAMBDA p :
             <<p[1]>> \o SubSeq(AddC(ZeroExt(Tail(p), Len(rest)), rest, 0),
                                1, Len(rest))))

\* a < b on equal-length byte strings
LessB(a, b) ==
    \E i \in 1..Len(a) :
        /\ a[i] < b[i]
        /\ \A j \in (i + 1)..Len(a) : a[j] = b[j]

RECURSIVE Digit(_, _, _, _)
\* the greatest d in from..to with b * d <= r2, found by bisection
\* (b * from <= r2)
Digit(r2, b, from, to) ==
    IF from = to THEN from
    ELSE IF LessB(r2, ScaleC(b, (from + to + 1) \div 2, 0))
         THEN Digit(r2, b, from, (from + to + 1) \div 2 - 1)
         ELSE Digit(r2, b, (from + to + 1) \div 2, to)

\* one step of long division in base 256: byte j of a is brought down into
\* the remainder qr.rem (below b), and the quotient gets its digit j
DivStep(a, b, j, qr) ==
    Let(<<a[j]>> \o qr.rem, LAMBDA r2 :
    Let(Digit(r2, b, 0, 255), LAMBDA d :
        [q   |-> [qr.q EXCEPT ![j] = d],
         rem |-> SubSeq(SubC(r2, ScaleC(b, d, 0), 0), 1, Len(a))]))

RECURSIVE DivLoop(_, _, _, _)
\* long division: bytes j, j-1, ..., 1 of a are still to be brought down
DivLoop(a, b, j, qr) ==
    IF j = 0 THEN qr.q
    ELSE Let(DivStep(a, b, j, qr), LAMBDA next : DivLoop(a, b, j - 1, next))

\* u32::overflowing_add and the like of the standard library, each giving
\* (value, overflowing): the wrapped value and whether the exact result
\* left the type's range
overflowing_add(a, b) ==
    Let(AddC(a, b, 0), LAMBDA r :
        [value |-> SubSeq(r, 1, Len(a)), overflowing |-> r[Len(a) + 1] # 0])

overflowing_sub(a, b) ==
    Let(SubC(a, b, 0), LAMBDA r :
        [value |-> SubSeq(r, 1, Len(a)), overflowing |-> r[Len(a) + 1] # 0])

overflowing_mul(a, b) ==
    Let(MulFull(a, b), LAMBDA r :
        [value |-> SubSeq(r, 1, Len(a)),
         overflowing |-> ~IsZero(SubSeq(r, Len(a) + 1, Len(r)))])

\* unsigned division never overflows; b is not zero here
overflowing_div(a, b) ==
    [value |-> DivLoop(a, b, Len(a), [q |-> Zeros(Len(a)), rem |-> Zeros(Len(a))]),
     overflowing |-> FALSE]
(***************************************************************************)
(* ExitStatus and Opcode.                                                  *)
(***************************************************************************)
Success                 == 0
UnknownOpcode           == 1
UnknownCallNumber       == 2
BytecodeAccessViolation == 3
StackOverflow           == 4
StackAccessViolation    == 5
ArrayAccessViolation    == 6
ArithmeticOverflow      == 7
DivideByZero            == 8
Unknown                 == 9

\* impl From<u32> for ExitStatus
ExitStatusFrom(v) == IF v \in 0..9 THEN v ELSE Unknown

\* enum Opcode, in declaration order: OpcodeNames[k + 1] has discriminant k
OpcodeNames ==
    << "Unknown", "Nop", "Exit", "Call", "Invoke", "Ret",
       "BAPush", "SAPush", "IAPush", "LAPush",
       "BPush", "SPush", "IPush", "LPush",
       "Dup", "Dup2", "Pop", "Pop2", "Load", "Load2",
       "BALoad", "SALoad", "IALoad", "LALoad",
       "Store", "Store2", "BAStore", "SAStore", "IAStore", "LAStore", "Drop",
       "IAdd", "LAdd", "ISub", "LSub", "IMul", "LMul", "IDiv", "LDiv",
       "IEq", "LEq", "IOrd", "LOrd", "IRevOrd", "LRevOrd", "IEqOrd", "LEqOrd",
       "Goto", "If", "IfNot" >>

\* a decoding that takes the byte itself for the discriminant
OpcodeFromUnshifted(v) ==
    IF v < Len(OpcodeNames) THEN OpcodeNames[v + 1] ELSE "Unknown"

\* impl From<u8> for Opcode: FromPrimitive::from_u32(v as u32 + 1)
OpcodeFrom(v) ==
    IF v + 1 < Len(OpcodeNames) THEN OpcodeNames[v + 2] ELSE "Unknown"

\* impl Into<u8> for Opcode: self as u8 - 1
OpcodeInto(name) ==
    (CHOOSE k \in 1..Len(OpcodeNames) : OpcodeNames[k] = name) - 2

(***************************************************************************)
(* The state of Interpreter::run.                                          *)
(***************************************************************************)
VARIABLES
    image,            \* bytecode_bytes: the program image, a sequence of bytes
    overflow_checks,  \* the build: TRUE when usize overflow panics, FALSE when it wraps
    fill,             \* the byte malloc'ed memory happens to hold
    stack,            \* the malloc'ed operand stack, as far as it has been written
    heap,             \* the array buffers malloc'ed so far, in allocation order
    sp, bp, pc, pp,   \* the cursors of run
    es,               \* the exit status recorded so far
    st,               \* where run is: "init", "loop", "break", "returned", "abort"
    ret,              \* the ExitStatus run returned
    opcode,           \* the byte fetched by the last iteration of 'operator
    tmp_pc,           \* pc of that byte
    stack_ptr,        \* the cursor into the malloc'ed stack, an address (0: no stack yet)
    freed,            \* the addresses the epilogue has passed to free
    hist,             \* history: the machine at the start of the last HistLen iterations
    lo,               \* history: the lowest stack offset the last iteration read or removed
    rd                \* history: the end of the highest image read of the last step

vars == << image, overflow_checks, fill, stack, heap, sp, bp, pc, pp, es, st,
           ret, opcode, tmp_pc, stack_ptr, freed, hist, lo, rd >>

max_stack_size == 1024
pool_offset    == 128
usize          == 8

bytecode_len == Len(image)

\* the w bytes of the image at offset o
ImageAt(o, w) == [i \in 1..w |-> image[o + i]]

\* The malloc'ed stack is kept as the bytes from offset 0 up to the highest
\* offset written so far (stack[a + 1] is the byte at offset a); every byte
\* above still holds what malloc left there, fill.
StackByte(s, a) == IF a < Len(s) THEN s[a + 1] ELSE fill

\* the w bytes of stack s at offset a
StackAt(s, a, w) == [i \in 1..w |-> StackByte(s, a + i - 1)]

\* stack s with the bytes bs written at offset a
StackWrite(s, a, bs) ==
    [x \in 1..(IF a + Len(bs) > Len(s) THEN a + Len(bs) ELSE Len(s)) |->
        IF x > a /\ x <= a + Len(bs) THEN bs[x - a] ELSE StackByte(s, x - 1)]

\* the states before the last HistLen iterations are kept in hist
HistLen == 4

\* The machine a handler works on: the cursors, the memories and the status,
\* no longer Running once an exit! has left the loop or the host has aborted.
Machine ==
    [pc |-> pc, sp |-> sp, bp |-> bp, pp |-> pp, stack |-> stack,
     heap |-> heap, es |-> es, st |-> st, stack_ptr |-> stack_ptr,
     lo |-> max_stack_size, rd |-> 0]

\* m after a read (or removal) of stack bytes from offset a on
Touch(m, a) == IF a < m.lo THEN [m EXCEPT !.lo = a] ELSE m

\* m after a read of the w bytes of the image at offset o
Read(m, o, w) == IF o + w > m.rd THEN [m EXCEPT !.rd = o + w] ELSE m

Running(m) == m.st = "loop"

\* an exit! that records the status and does not break
exit_no_break(m, status_kind) == [m EXCEPT !.es = status_kind]

\* an exit! that breaks and records no status
exit_unrecorded(m, status_kind) == [m EXCEPT !.st = "break"]

\* macro exit! of the 'operator block: record the status and break
exit(m, status_kind) == [m EXCEPT !.es = status_kind, !.st = "break"]

\* a panic of the host (overflow check of a debug build) or a trap on a wild
\* pointer: run returns nothing
abort(m) == [m EXCEPT !.st = "abort"]

\* a usize result r = (value, overflowing) of +, * in the code: a build with
\* overflow checks panics, one without wraps
Checked(m, r) ==
    IF Running(m) /\ r.overflowing /\ overflow_checks
    THEN [m |-> abort(m), v |-> r.value]
    ELSE [m |-> m, v |-> r.value]

(***************************************************************************)
(* The macros of run.  Each takes the machine m and gives the machine      *)
(* after it, or [m, v] when the macro also yields a value; once an exit!   *)
(* has broken out of the loop (or the host has aborted) every later macro  *)
(* of the handler leaves the machine alone.                                *)
(***************************************************************************)

\* macro next! on the cursor pc (next_prg!)
next_prg(m, w) ==
    IF ~Running(m) THEN [m |-> m, v |-> Zeros(w)]
    ELSE IF m.pc + w > bytecode_len
         THEN [m |-> exit(m, BytecodeAccessViolation), v |-> Zeros(w)]
         ELSE [m |-> Read([m EXCEPT !.pc = @ + w], m.pc, w),
               v |-> ImageAt(m.pc, w)]

\* macro next! on the cursor pp (next_pool!)
next_pool(m, w) ==
    IF ~Running(m) THEN [m |-> m, v |-> Zeros(w)]
    ELSE IF m.pp + w > bytecode_len
         THEN [m |-> exit(m, BytecodeAccessViolation), v |-> Zeros(w)]
         ELSE [m |-> Read([m EXCEPT !.pp = @ + w], m.pp, w),
               v |-> ImageAt(m.pp, w)]

\* macro jump_to! on the cursor pc (jump_prg_to!)
jump_prg_to(m, index) ==
    IF ~Running(m) THEN m
    ELSE IF index > bytecode_len THEN exit(m, BytecodeAccessViolation)
         ELSE [m EXCEPT !.pc = index]

\* macro jump_to! on the cursor pp
jump_pp_to(m, index) ==
    IF ~Running(m) THEN m
    ELSE IF index > bytecode_len THEN exit(m, BytecodeAccessViolation)
         ELSE [m EXCEPT !.pp = index]

\* macro jump_pool_to!: pp to pool entry pool_i, then to the address it holds
jump_pool_to(m, pool_i) ==
    Let(Checked(m, overflowing_mul(pool_i, LE(usize, usize))), LAMBDA scaled :
    Let(Checked(scaled.m, overflowing_add(LE(pool_offset, usize), scaled.v)),
        LAMBDA target :
    Let(jump_pp_to(target.m, ToNat(target.v)), LAMBDA m1 :
    Let(next_pool(m1, usize), LAMBDA value_addr :
        jump_pp_to(value_addr.m, ToNat(value_addr.v))))))

\* a jump_to! that sets sp and leaves the cursor stack_ptr where it was
jump_stack_to_pos_only(m, index) ==
    IF ~Running(m) THEN m
    ELSE IF index > max_stack_size THEN exit(m, StackAccessViolation)
         ELSE [m EXCEPT !.sp = index]

\* macro jump_to! on the cursor sp (jump_stack_to!)
jump_stack_to(m, index) ==
    IF ~Running(m) THEN m
    ELSE IF index > max_stack_size THEN exit(m, StackAccessViolation)
         ELSE [m EXCEPT !.stack_ptr = @ + index - m.sp, !.sp = index]

\* a push! that refuses the last byte of the stack
stack_push_short(m, value) ==
    IF ~Running(m) THEN m
    ELSE IF m.sp + Len(value) >= max_stack_size THEN exit(m, StackOverflow)
         ELSE [m EXCEPT !.stack = StackWrite(@, m.sp, value),
                        !.sp = @ + Len(value),
                        !.stack_ptr = @ + Len(value)]

\* macro push! on the stack (stack_push!), value the bytes of a $ty
stack_push(m, value) ==
    IF ~Running(m) THEN m
    ELSE IF m.sp + Len(value) > max_stack_size THEN exit(m, StackOverflow)
         ELSE [m EXCEPT !.stack = StackWrite(@, m.sp, value),
                        !.sp = @ + Len(value),
                        !.stack_ptr = @ + Len(value)]

\* macro pop! on the stack (unsafe_stack_pop!)
unsafe_stack_pop(m, value_size) ==
    IF ~Running(m) THEN [m |-> m, v |-> Zeros(value_size)]
    ELSE IF m.sp < value_size
         THEN [m |-> exit(m, StackAccessViolation), v |-> Zeros(value_size)]
         ELSE [m |-> Touch([m EXCEPT !.sp = @ - value_size,
                                    !.stack_ptr = @ - value_size],
                          m.sp - value_size),
               v |-> StackAt(m.stack, m.sp - value_size, value_size)]

\* unsafe_stack_pop!($ty, $len): len pops one after the other; the first
\* sp \div value_size of them succeed
unsafe_stack_pop_n(m, value_size, len) ==
    IF ~Running(m) THEN m
    ELSE IF len <= m.sp \div value_size
         THEN Touch([m EXCEPT !.sp = @ - len * value_size,
                              !.stack_ptr = @ - len * value_size],
                    m.sp - len * value_size)
         ELSE exit(Touch([m EXCEPT !.sp = @ - (m.sp \div value_size) * value_size,
                                   !.stack_ptr = @ - (m.sp \div value_size) * value_size],
                         m.sp - (m.sp \div value_size) * value_size),
                   StackAccessViolation)

\* macro stack_pop!: not below the saved bp and return address of the frame
stack_pop(m, value_size) ==
    IF ~Running(m) THEN [m |-> m, v |-> Zeros(value_size)]
    ELSE IF m.sp < m.bp + usize * 2 + value_size
         THEN [m |-> exit(m, StackAccessViolation), v |-> Zeros(value_size)]
         ELSE unsafe_stack_pop(m, value_size)

\* stack_pop!($ty, $len): len checked pops one after the other; the first
\* (sp - bp - 16) \div value_size of them succeed
stack_pop_n(m, value_size, len) ==
    LET room == IF m.sp < m.bp + usize * 2 THEN 0
                ELSE (m.sp - m.bp - usize * 2) \div value_size
    IN  IF ~Running(m) THEN m
        ELSE IF len <= room
             THEN Touch([m EXCEPT !.sp = @ - len * value_size,
                              !.stack_ptr = @ - len * value_size],
                        m.sp - len * value_size)
             ELSE exit(Touch([m EXCEPT !.sp = @ - room * value_size,
                                       !.stack_ptr = @ - room * value_size],
                             m.sp - room * value_size),
                       StackAccessViolation)

\* macro top! on the stack (unsafe_stack_top!)
unsafe_stack_top(m, value_size) ==
    IF ~Running(m) THEN [m |-> m, v |-> Zeros(value_size)]
    ELSE IF m.sp < value_size
         THEN [m |-> exit(m, StackOverflow), v |-> Zeros(value_size)]
         ELSE [m |-> Touch(m, m.sp - value_size),
               v |-> StackAt(m.stack, m.sp - value_size, value_size)]

\* macro stack_top!
stack_top(m, value_size) ==
    IF ~Running(m) THEN [m |-> m, v |-> Zeros(value_size)]
    ELSE IF m.sp < m.bp + usize * 2 + value_size
         THEN [m |-> exit(m, StackAccessViolation), v |-> Zeros(value_size)]
         ELSE unsafe_stack_top(m, value_size)

\* a var_table_diff! that checks the first slot of the variable only
var_table_diff_slot(m, value_size, var_i) ==
    IF ~Running(m) THEN [m |-> m, v |-> 0]
    ELSE IF m.sp < m.bp + usize * 2
         THEN [m |-> exit(m, StackAccessViolation), v |-> 0]
         ELSE IF m.sp - m.bp - usize * 2 < 4 * var_i + 4
              THEN [m |-> exit(m, StackAccessViolation), v |-> 0]
              ELSE [m |-> m, v |-> m.sp - m.bp - usize * 2 - var_i * 4]

\* macro var_table_diff!: the distance from sp down to variable var_i
var_table_diff(m, value_size, var_i) ==
    IF ~Running(m) THEN [m |-> m, v |-> 0]
    ELSE IF m.sp < m.bp + usize * 2
         THEN [m |-> exit(m, StackAccessViolation), v |-> 0]
         ELSE IF m.sp - m.bp - usize * 2 < 4 * var_i + value_size
              THEN [m |-> exit(m, StackAccessViolation), v |-> 0]
              ELSE [m |-> m, v |-> m.sp - m.bp - usize * 2 - var_i * 4]

\* a load! that counts the variables from bp, not from the end of the
\* saved bp and return address
load_from_bp(m, value_size, var_i) ==
    Let(var_table_diff(m, value_size, var_i), LAMBDA diff :
        IF ~Running(diff.m) THEN diff.m
        ELSE stack_push(Touch(diff.m, m.bp + 4 * var_i),
                        StackAt(m.stack, m.bp + 4 * var_i, value_size)))

\* macro load!
load(m, value_size, var_i) ==
    Let(var_table_diff(m, value_size, var_i), LAMBDA diff :
        IF ~Running(diff.m) THEN diff.m
        ELSE stack_push(Touch(diff.m, m.sp - diff.v),
                        StackAt(m.stack, m.sp - diff.v, value_size)))

\* macro store!
store(m, value_size, var_i, value) ==
    Let(var_table_diff(m, value_size, var_i), LAMBDA diff :
        IF ~Running(diff.m) THEN diff.m
        ELSE [diff.m EXCEPT !.stack = StackWrite(@, m.sp - diff.v, value)])
(***************************************************************************)
(* Memory behind raw pointers.  malloc gave the operand stack the address  *)
(* StackAddr and gives the k-th array buffer the address ArrAddr(k); a     *)
(* buffer is its bytes, the 8-byte size_in_bytes header first, and whether *)
(* it is still allocated.  A pointer popped from the operand stack is      *)
(* dereferenced as it is: when the bytes it names lie in the stack or in a *)
(* live buffer they are the bytes accessed; any other access is undefined  *)
(* behaviour: the host traps, or the access goes to memory outside the     *)
(* model, a read giving garbage.  UB is the set of these outcomes, one     *)
(* chosen per step.                                                        *)
(***************************************************************************)
MaxArrBytes == 16

UB == {"trap", "zeros", "ones"}

Garbage(u, w) == [i \in 1..w |-> IF u = "ones" THEN 255 ELSE 0]

StackAddr  == 32768
ArrBase(k) == 65536 + k * 4096
ArrAddr(k) == LE(ArrBase(k), usize)

\* the live buffer that holds the w bytes at address a, 0 when there is none
BufferAt(m, a, w) ==
    IF \E k \in 1..Len(m.heap) :
          /\ m.heap[k].live
          /\ ArrBase(k) <= a /\ a + w <= ArrBase(k) + Len(m.heap[k].buf)
    THEN CHOOSE k \in 1..Len(m.heap) :
            /\ m.heap[k].live
            /\ ArrBase(k) <= a /\ a + w <= ArrBase(k) + Len(m.heap[k].buf)
    ELSE 0

InStack(a, w) == StackAddr <= a /\ a + w <= StackAddr + max_stack_size

\* the address arr_ptr + off; the pointer arithmetic wraps
PtrAdd(arr_ptr, off) == ToNat(overflowing_add(arr_ptr, off).value)

\* the w bytes at address a
ReadAt(m, a, w, u) ==
    IF InStack(a, w)
    THEN [m |-> Touch(m, a - StackAddr), v |-> StackAt(m.stack, a - StackAddr, w)]
    ELSE IF BufferAt(m, a, w) # 0
         THEN Let(BufferAt(m, a, w), LAMBDA k :
                  [m |-> m,
                   v |-> SubSeq(m.heap[k].buf, a - ArrBase(k) + 1,
                                a - ArrBase(k) + w)])
         ELSE IF u = "trap" THEN [m |-> abort(m), v |-> Zeros(w)]
              ELSE [m |-> m, v |-> Garbage(u, w)]

\* the bytes value stored at address a
WriteAt(m, a, value, u) ==
    IF InStack(a, Len(value))
    THEN [m EXCEPT !.stack = StackWrite(@, a - StackAddr, value)]
    ELSE IF BufferAt(m, a, Len(value)) # 0
         THEN Let(BufferAt(m, a, Len(value)), LAMBDA k :
                  [m EXCEPT !.heap[k].buf =
                      [i \in 1..Len(@) |->
                          IF i > a - ArrBase(k) /\ i <= a - ArrBase(k) + Len(value)
                          THEN value[i - (a - ArrBase(k))]
                          ELSE @[i]]])
         ELSE IF u = "trap" THEN abort(m) ELSE m

\* *(arr_ptr + off) read as w bytes
PtrRead(m, arr_ptr, off, w, u) ==
    IF ~Running(m) THEN [m |-> m, v |-> Zeros(w)]
    ELSE Let(PtrAdd(arr_ptr, off), LAMBDA a : ReadAt(m, a, w, u))

\* the w bytes from arr_ptr + off on are read and written out
PtrScan(m, arr_ptr, off, w, u) ==
    IF ~Running(m) \/ w = 0 THEN m
    ELSE Let(PtrAdd(arr_ptr, off), LAMBDA a :
             IF InStack(a, w) THEN Touch(m, a - StackAddr)
             ELSE IF BufferAt(m, a, w) # 0 \/ u # "trap" THEN m
                  ELSE abort(m))

\* *(arr_ptr + off) = value
PtrWrite(m, arr_ptr, off, value, u) ==
    IF ~Running(m) THEN m
    ELSE Let(PtrAdd(arr_ptr, off), LAMBDA a : WriteAt(m, a, value, u))

\* malloc(size_of::<usize>() + arr_len) and the write of the header.  The
\* model follows arrays of up to MaxArrBytes payload bytes: a larger request
\* ends the run as a refused allocation does, the header write trapping.
malloc_arr(m, arr_len) ==
    IF ~Running(m) THEN m
    ELSE IF ToNat(arr_len) > MaxArrBytes THEN abort(m)
         ELSE [m EXCEPT !.heap =
                  Append(@, [buf  |-> arr_len \o [i \in 1..ToNat(arr_len) |-> fill],
                             live |-> TRUE])]

\* free(ptr) of Opcode::Drop: of a live buffer's address, of NULL (nothing),
\* or of anything else (undefined)
free_arr(m, ptr, u) ==
    IF ~Running(m) \/ IsZero(ptr) THEN m
    ELSE IF \E k \in 1..Len(m.heap) : ArrAddr(k) = ptr /\ m.heap[k].live
         THEN Let(CHOOSE k \in 1..Len(m.heap) : ArrAddr(k) = ptr, LAMBDA k :
                  [m EXCEPT !.heap[k].live = FALSE])
         ELSE IF u = "trap" THEN abort(m) ELSE m

\* the byte offset, from arr_ptr, of element arr_i of width s:
\* (arr_ptr as *mut usize).add(1) as *mut $ty .add(arr_i)
ElemOffset(arr_i, s) ==
    overflowing_add(LE(usize, usize),
                    overflowing_mul(arr_i, LE(s, usize)).value).value

\* pointer arithmetic that leaves the address space is undefined: the build
\* wraps, or the host traps
ElemPtr(m, arr_ptr, arr_i, s, u) ==
    IF /\ Running(m) /\ u = "trap"
       /\ \/ overflowing_mul(arr_i, LE(s, usize)).overflowing
          \/ overflowing_add(LE(usize, usize),
                             overflowing_mul(arr_i, LE(s, usize)).value).overflowing
          \/ overflowing_add(arr_ptr, ElemOffset(arr_i, s)).overflowing
    THEN abort(m)
    ELSE m

\* the bounds check of load_arr! and store_arr!:
\* (arr_i + 1) * size_of::<$ty>() > arr_size
arr_check(m, arr_i, s, arr_size) ==
    Let(Checked(m, overflowing_add(arr_i, LE(1, usize))), LAMBDA next :
    Let(Checked(next.m, overflowing_mul(next.v, LE(s, usize))), LAMBDA need :
        IF ~Running(need.m) THEN need.m
        ELSE IF LessB(arr_size, need.v) THEN exit(need.m, ArrayAccessViolation)
             ELSE need.m))

\* macro stack_push_arr!
stack_push_arr(m, s) ==
    Let(next_prg(m, usize), LAMBDA n :
    Let(Checked(n.m, overflowing_mul(n.v, LE(s, usize))), LAMBDA arr_len :
    Let(Checked(arr_len.m, overflowing_add(LE(usize, usize), arr_len.v)),
        LAMBDA total :
    Let(malloc_arr(total.m, arr_len.v), LAMBDA m1 :
        IF ~Running(m1) THEN m1
        ELSE stack_push(m1, ArrAddr(Len(m1.heap)))))))

\* macro load_arr!
load_arr(m, s, u) ==
    Let(stack_pop(m, usize), LAMBDA arr_i :
    Let(stack_pop(arr_i.m, usize), LAMBDA arr_ptr :
    Let(PtrRead(arr_ptr.m, arr_ptr.v, Zeros(usize), usize, u), LAMBDA arr_size :
    Let(arr_check(arr_size.m, arr_i.v, s, arr_size.v), LAMBDA m1 :
    Let(ElemPtr(m1, arr_ptr.v, arr_i.v, s, u), LAMBDA m2 :
    Let(PtrRead(m2, arr_ptr.v, ElemOffset(arr_i.v, s), s, u), LAMBDA value :
        stack_push(value.m, value.v)))))))

\* a store_arr! that keeps the high bytes of the value
store_arr_high(m, s, pop_size, u) ==
    Let(stack_pop(m, pop_size), LAMBDA value :
    Let(stack_pop(value.m, usize), LAMBDA arr_i :
    Let(stack_pop(arr_i.m, usize), LAMBDA arr_ptr :
    Let(PtrRead(arr_ptr.m, arr_ptr.v, Zeros(usize), usize, u), LAMBDA arr_size :
    Let(arr_check(arr_size.m, arr_i.v, s, arr_size.v), LAMBDA m1 :
    Let(ElemOffset(arr_i.v, s), LAMBDA off :
        PtrWrite(m1, arr_ptr.v, off,
                 SubSeq(value.v, pop_size - s + 1, pop_size), u)))))))

\* macro store_arr!: the value is popped as pop_size bytes and cast to s bytes
store_arr(m, s, pop_size, u) ==
    Let(stack_pop(m, pop_size), LAMBDA value :
    Let(stack_pop(value.m, usize), LAMBDA arr_i :
    Let(stack_pop(arr_i.m, usize), LAMBDA arr_ptr :
    Let(PtrRead(arr_ptr.m, arr_ptr.v, Zeros(usize), usize, u), LAMBDA arr_size :
    Let(arr_check(arr_size.m, arr_i.v, s, arr_size.v), LAMBDA m1 :
    Let(ElemPtr(m1, arr_ptr.v, arr_i.v, s, u), LAMBDA m2 :
    Let(ElemOffset(arr_i.v, s), LAMBDA off :
        PtrWrite(m2, arr_ptr.v, off, Trunc(value.v, s), u))))))))

\* left_term.$f(right_term) for the $f of a calc! call
Apply(f, a, b) ==
    CASE f = "overflowing_add" -> overflowing_add(a, b)
      [] f = "overflowing_sub" -> overflowing_sub(a, b)
      [] f = "overflowing_mul" -> overflowing_mul(a, b)
      [] f = "overflowing_div" -> overflowing_div(a, b)

\* a calc! that pushes the wrapped value
calc_wrapping(m, w, f, check_divide_by_zero) ==
    Let(stack_pop(m, w), LAMBDA right_term :
    Let(stack_pop(right_term.m, w), LAMBDA left_term :
        IF ~Running(left_term.m) THEN left_term.m
        ELSE IF check_divide_by_zero /\ IsZero(right_term.v)
             THEN exit(left_term.m, DivideByZero)
             ELSE stack_push(left_term.m, Apply(f, left_term.v, right_term.v).value)))

\* a calc! that takes the right operand for the left
calc_swapped(m, w, f, check_divide_by_zero) ==
    Let(stack_pop(m, w), LAMBDA left_term :
    Let(stack_pop(left_term.m, w), LAMBDA right_term :
        IF ~Running(right_term.m) THEN right_term.m
        ELSE IF check_divide_by_zero /\ IsZero(right_term.v)
             THEN exit(right_term.m, DivideByZero)
             ELSE Let(Apply(f, left_term.v, right_term.v), LAMBDA r :
                      IF r.overflowing THEN exit(right_term.m, ArithmeticOverflow)
                      ELSE stack_push(right_term.m, r.value))))

\* macro calc!: f is overflowing_add, ..., check_divide_by_zero as in the call
calc(m, w, f, check_divide_by_zero) ==
    Let(stack_pop(m, w), LAMBDA right_term :
    Let(stack_pop(right_term.m, w), LAMBDA left_term :
        IF ~Running(left_term.m) THEN left_term.m
        ELSE IF check_divide_by_zero /\ IsZero(right_term.v)
             THEN exit(left_term.m, DivideByZero)
             ELSE Let(Apply(f, left_term.v, right_term.v), LAMBDA r :
                      IF r.overflowing THEN exit(left_term.m, ArithmeticOverflow)
                      ELSE stack_push(left_term.m, r.value))))

\* value1 rel value2 for the operator of a comparison opcode
Holds(rel, a, b) ==
    CASE rel = "==" -> a = b
      [] rel = "<"  -> LessB(a, b)
      [] rel = ">"  -> LessB(b, a)
      [] rel = "<=" -> ~LessB(b, a)

\* the comparison opcodes: value1 below value2 on the stack, a u32 pushed
compare(m, w, rel) ==
    Let(stack_pop(m, w), LAMBDA value2 :
    Let(stack_pop(value2.m, w), LAMBDA value1 :
        stack_push(value1.m, LE(IF Holds(rel, value1.v, value2.v) THEN 1 ELSE 0, 4))))

\* an i16 immediate as an integer
Signed16(bs) == IF ToNat(bs) >= 32768 THEN ToNat(bs) - 65536 ELSE ToNat(bs)

\* a goto! that counts the offset from the opcode
goto_from_opcode(m) ==
    Let(next_prg(m, 2), LAMBDA offset :
        IF ~Running(offset.m) THEN offset.m
        ELSE IF 0 > m.pc - 1 + Signed16(offset.v)
             THEN exit(offset.m, BytecodeAccessViolation)
             ELSE jump_prg_to(offset.m, m.pc - 1 + Signed16(offset.v)))

\* macro goto!
goto(m) ==
    Let(next_prg(m, 2), LAMBDA offset :
        IF ~Running(offset.m) THEN offset.m
        ELSE IF 0 > offset.m.pc + Signed16(offset.v)
             THEN exit(offset.m, BytecodeAccessViolation)
             ELSE jump_prg_to(offset.m, offset.m.pc + Signed16(offset.v)))

\* macro goto_if!
goto_if(m, cond) ==
    IF ~Running(m) THEN m
    ELSE IF cond THEN goto(m) ELSE next_prg(m, 2).m
(***************************************************************************)
(* The arms of `match opcode_kind`.  m is the machine after the opcode     *)
(* byte has been fetched.                                                  *)
(***************************************************************************)

\* Opcode::Call
OpCall(m, u) ==
    Let(next_prg(m, 1), LAMBDA code :
        IF ~Running(code.m) THEN code.m
        ELSE IF code.v[1] = 0 THEN code.m
        ELSE IF code.v[1] = 1
             THEN Let(stack_pop(code.m, usize), LAMBDA arr_ptr :
                  Let(PtrRead(arr_ptr.m, arr_ptr.v, Zeros(usize), usize, u),
                      LAMBDA arr_len :
                      PtrScan(arr_len.m, arr_ptr.v, LE(usize, usize),
                              ToNat(arr_len.v), u)))
             ELSE exit(code.m, UnknownCallNumber))

RECURSIVE PushArgs(_, _)
\* for each_arg in args { stack_push!(u32, each_arg) }
PushArgs(m, args) ==
    IF args = <<>> THEN m
    ELSE Let(stack_push(m, Head(args)), LAMBDA m1 : PushArgs(m1, Tail(args)))

\* an Invoke that pushes the arguments in the order they are popped in, the
\* last one first
InvokeFrameReversed(m, start_addr, var_len, arg_len) ==
    IF ~Running(m) THEN m
    ELSE IF var_len < arg_len \/ m.sp < arg_len * 4
         THEN exit(m, StackAccessViolation)
         ELSE
    Let([i \in 1..arg_len |-> StackAt(m.stack, m.sp - i * 4, 4)],
        LAMBDA args :
    Let(stack_pop_n(IF arg_len > 0 THEN Touch(m, m.sp - arg_len * 4) ELSE m,
                    4, arg_len), LAMBDA m1 :
    Let(stack_push(m1, LE(m1.bp, usize)), LAMBDA m2 :
    Let(IF Running(m2) THEN [m2 EXCEPT !.bp = m1.sp] ELSE m2, LAMBDA m3 :
    Let(stack_push(m3, LE(m3.pc, usize)), LAMBDA m4 :
    Let(PushArgs(m4, args), LAMBDA m5 :
    Let(jump_stack_to(m5, m5.sp + (var_len - arg_len) * 4), LAMBDA m6 :
        jump_prg_to(m6, start_addr))))))))

\* an Invoke that reserves var_len slots above the arguments
InvokeFrameWide(m, start_addr, var_len, arg_len) ==
    IF ~Running(m) THEN m
    ELSE IF var_len < arg_len \/ m.sp < arg_len * 4
         THEN exit(m, StackAccessViolation)
         ELSE
    Let([i \in 1..arg_len |-> StackAt(m.stack, m.sp - (arg_len - (i - 1)) * 4, 4)],
        LAMBDA args :
    Let(stack_pop_n(IF arg_len > 0 THEN Touch(m, m.sp - arg_len * 4) ELSE m,
                    4, arg_len), LAMBDA m1 :
    Let(stack_push(m1, LE(m1.bp, usize)), LAMBDA m2 :
    Let(IF Running(m2) THEN [m2 EXCEPT !.bp = m1.sp] ELSE m2, LAMBDA m3 :
    Let(stack_push(m3, LE(m3.pc, usize)), LAMBDA m4 :
    Let(PushArgs(m4, args), LAMBDA m5 :
    Let(jump_stack_to(m5, m5.sp + var_len * 4), LAMBDA m6 :
        jump_prg_to(m6, start_addr))))))))

\* an Invoke that pops its arguments without stack_pop!'s check
InvokeFrameUnchecked(m, start_addr, var_len, arg_len) ==
    IF ~Running(m) THEN m
    ELSE IF var_len < arg_len \/ m.sp < arg_len * 4
         THEN exit(m, StackAccessViolation)
         ELSE
    Let([i \in 1..arg_len |-> StackAt(m.stack, m.sp - (arg_len - (i - 1)) * 4, 4)],
        LAMBDA args :
    Let(unsafe_stack_pop_n(IF arg_len > 0 THEN Touch(m, m.sp - arg_len * 4) ELSE m,
                           4, arg_len), LAMBDA m1 :
    Let(stack_push(m1, LE(m1.bp, usize)), LAMBDA m2 :
    Let(IF Running(m2) THEN [m2 EXCEPT !.bp = m1.sp] ELSE m2, LAMBDA m3 :
    Let(stack_push(m3, LE(m3.pc, usize)), LAMBDA m4 :
    Let(PushArgs(m4, args), LAMBDA m5 :
    Let(jump_stack_to(m5, m5.sp + (var_len - arg_len) * 4), LAMBDA m6 :
        jump_prg_to(m6, start_addr))))))))

\* Opcode::Invoke, from the validation of the descriptor on
InvokeFrame(m, start_addr, var_len, arg_len) ==
    IF ~Running(m) THEN m
    ELSE IF var_len < arg_len \/ m.sp < arg_len * 4
         THEN exit(m, StackAccessViolation)
         ELSE
    Let([i \in 1..arg_len |-> StackAt(m.stack, m.sp - (arg_len - (i - 1)) * 4, 4)],
        LAMBDA args :
    Let(stack_pop_n(IF arg_len > 0 THEN Touch(m, m.sp - arg_len * 4) ELSE m,
                    4, arg_len), LAMBDA m1 :
    Let(stack_push(m1, LE(m1.bp, usize)), LAMBDA m2 :
    Let(IF Running(m2) THEN [m2 EXCEPT !.bp = m1.sp] ELSE m2, LAMBDA m3 :
    Let(stack_push(m3, LE(m3.pc, usize)), LAMBDA m4 :
    Let(PushArgs(m4, args), LAMBDA m5 :
    Let(jump_stack_to(m5, m5.sp + (var_len - arg_len) * 4), LAMBDA m6 :
        jump_prg_to(m6, start_addr))))))))

\* Opcode::Invoke up to the validation: the descriptor of the function the
\* immediate names
Descriptor(m) ==
    Let(next_prg(m, usize), LAMBDA pool_i :
    Let(jump_pool_to(pool_i.m, pool_i.v), LAMBDA m1 :
    Let(next_pool(m1, usize), LAMBDA start_addr :
    Let(next_pool(start_addr.m, 2), LAMBDA var_len :
    Let(next_pool(var_len.m, 1), LAMBDA arg_len :
        [m |-> arg_len.m, start_addr |-> ToNat(start_addr.v),
         var_len |-> ToNat(var_len.v), arg_len |-> ToNat(arg_len.v)])))))

\* Opcode::Invoke
OpInvoke(m) ==
    Let(Descriptor(m), LAMBDA d :
        InvokeFrame(d.m, d.start_addr, d.var_len, d.arg_len))

\* a Ret that leaves bp where the callee had it
OpRetKeepBp(m) ==
    IF m.sp < m.bp \/ m.sp - m.bp < usize * 2
    THEN exit(m, StackAccessViolation)
    ELSE
    Let(unsafe_stack_pop_n(m, 1, m.sp - m.bp - usize * 2), LAMBDA m1 :
    Let(unsafe_stack_pop(m1, usize), LAMBDA ret_addr :
    Let(jump_prg_to(ret_addr.m, ToNat(ret_addr.v)), LAMBDA m2 :
        unsafe_stack_pop(m2, usize).m)))

\* Opcode::Ret
OpRet(m) ==
    IF m.sp < m.bp \/ m.sp - m.bp < usize * 2
    THEN exit(m, StackAccessViolation)
    ELSE
    Let(unsafe_stack_pop_n(m, 1, m.sp - m.bp - usize * 2), LAMBDA m1 :
    Let(unsafe_stack_pop(m1, usize), LAMBDA ret_addr :
    Let(jump_prg_to(ret_addr.m, ToNat(ret_addr.v)), LAMBDA m2 :
    Let(unsafe_stack_pop(m2, usize), LAMBDA saved :
        IF Running(saved.m) THEN [saved.m EXCEPT !.bp = ToNat(saved.v)]
        ELSE saved.m))))

\* BPush, SPush, IPush, LPush: stack_push_next_prg!($ty as $cast_to, $push_ty)
stack_push_next_prg(m, w, push_w) ==
    Let(next_prg(m, w), LAMBDA value :
        stack_push(value.m, ZeroExt(value.v, push_w)))

\* Opcode::Dup, Opcode::Dup2
OpDup(m, w) ==
    Let(stack_top(m, w), LAMBDA top_value :
        stack_push(top_value.m, top_value.v))

\* Opcode::Pop, Opcode::Pop2
OpPop(m, w) == stack_pop(m, w).m

\* Opcode::Load, Opcode::Load2
OpLoad(m, w) ==
    Let(next_prg(m, 2), LAMBDA var_i :
        load(var_i.m, w, ToNat(var_i.v)))

\* Opcode::Store, Opcode::Store2
OpStore(m, w) ==
    Let(next_prg(m, 2), LAMBDA var_i :
    Let(stack_pop(var_i.m, w), LAMBDA value :
        store(value.m, w, ToNat(var_i.v), value.v)))

\* Opcode::Drop
OpDrop(m, u) ==
    Let(stack_pop(m, usize), LAMBDA ptr :
        free_arr(ptr.m, ptr.v, u))

\* an If and IfNot with the senses exchanged
OpIfInverted(m, on_zero) ==
    Let(stack_pop(m, 4), LAMBDA value :
        goto_if(value.m, IsZero(value.v) # on_zero))

\* Opcode::If (on_zero = FALSE), Opcode::IfNot (on_zero = TRUE)
OpIf(m, on_zero) ==
    Let(stack_pop(m, 4), LAMBDA value :
        goto_if(value.m, IsZero(value.v) = on_zero))

\* the width of the L opcodes is 8, of the I opcodes 4; of the array
\* opcodes the element size
WidthOf(kind) ==
    IF kind \in {"LAdd", "LSub", "LMul", "LDiv", "LEq", "LOrd", "LRevOrd",
                 "LEqOrd", "LPush", "LAPush", "LALoad", "LAStore",
                 "Dup2", "Pop2", "Load2", "Store2"} THEN 8
    ELSE IF kind \in {"SPush", "SAPush", "SALoad", "SAStore"} THEN 2
    ELSE IF kind \in {"BPush", "BAPush", "BALoad", "BAStore"} THEN 1
    ELSE 4

\* the undefined outcomes open to a handler: those of a raw pointer access
\* for the opcodes that take a pointer from the stack
UBOf(kind) ==
    IF kind \in {"Call", "Drop", "BALoad", "SALoad", "IALoad", "LALoad",
                 "BAStore", "SAStore", "IAStore", "LAStore"}
    THEN UB ELSE {"trap"}

\* match opcode_kind { ... }
Execute(m, kind, u) ==
    CASE kind = "Nop"  -> m
      [] kind = "Exit" -> exit(m, Success)
      [] kind = "Call" -> OpCall(m, u)
      [] kind = "Invoke" -> OpInvoke(m)
      [] kind = "Ret"  -> OpRet(m)
      [] kind \in {"BAPush", "SAPush", "IAPush", "LAPush"} ->
            stack_push_arr(m, WidthOf(kind))
      [] kind \in {"BPush", "SPush", "IPush"} ->
            stack_push_next_prg(m, WidthOf(kind), 4)
      [] kind = "LPush" -> stack_push_next_prg(m, 8, 8)
      [] kind \in {"Dup", "Dup2"} -> OpDup(m, WidthOf(kind))
      [] kind \in {"Pop", "Pop2"} -> OpPop(m, WidthOf(kind))
      [] kind \in {"Load", "Load2"} -> OpLoad(m, WidthOf(kind))
      [] kind \in {"BALoad", "SALoad", "IALoad", "LALoad"} ->
            load_arr(m, WidthOf(kind), u)
      [] kind \in {"Store", "Store2"} -> OpStore(m, WidthOf(kind))
      [] kind \in {"BAStore", "SAStore", "IAStore"} ->
            store_arr(m, WidthOf(kind), 4, u)
      [] kind = "LAStore" -> store_arr(m, 8, 8, u)
      [] kind = "Drop" -> OpDrop(m, u)
      [] kind \in {"IAdd", "LAdd"} -> calc(m, WidthOf(kind), "overflowing_add", FALSE)
      [] kind \in {"ISub", "LSub"} -> calc(m, WidthOf(kind), "overflowing_sub", FALSE)
      [] kind \in {"IMul", "LMul"} -> calc(m, WidthOf(kind), "overflowing_mul", FALSE)
      [] kind \in {"IDiv", "LDiv"} -> calc(m, WidthOf(kind), "overflowing_div", TRUE)
      [] kind \in {"IEq", "LEq"} -> compare(m, WidthOf(kind), "==")
      [] kind \in {"IOrd", "LOrd"} -> compare(m, WidthOf(kind), "<")
      [] kind \in {"IRevOrd", "LRevOrd"} -> compare(m, WidthOf(kind), ">")
      [] kind \in {"IEqOrd", "LEqOrd"} -> compare(m, WidthOf(kind), "<=")
      [] kind = "Goto" -> goto(m)
      [] kind = "If" -> OpIf(m, FALSE)
      [] kind = "IfNot" -> OpIf(m, TRUE)
      [] kind = "Unknown" -> exit(m, UnknownOpcode)

(***************************************************************************)
(* Interpreter::run as a state machine.                                    *)
(***************************************************************************)

\* the handler's machine becomes the state
Commit(m) ==
    /\ pc' = m.pc /\ sp' = m.sp /\ bp' = m.bp /\ pp' = m.pp
    /\ stack' = m.stack /\ heap' = m.heap /\ es' = m.es /\ st' = m.st
    /\ stack_ptr' = m.stack_ptr /\ lo' = m.lo /\ rd' = m.rd

\* the value read outside the image by the unchecked entry-point lookup
EntryRead(o, u) ==
    IF o + usize <= bytecode_len THEN ImageAt(o, usize) ELSE Garbage(u, usize)

\* the frame of the entry point: stack_push!(usize, 0) for the saved bp,
\* stack_push!(usize, bytecode_len - 1) for the return address.  The two
\* pushes are made at sp = 0 and 8, so the exit! outside the loop, which
\* does not interrupt, is never reached from them.
EntryFrame(m) ==
    stack_push(stack_push(m, LE(0, usize)), LE(bytecode_len - 1, usize))

\* run up to the 'operator loop: the entry point is read through the first
\* pool entry without a check (a read outside the image is undefined:
\* a trap, or garbage), the stack is malloc'ed, and when entry_point_pc is
\* inside the image the entry frame is pushed.
Boot ==
    /\ st = "init"
    /\ \E u \in UB :
       \E ptr \in {ToNat(EntryRead(pool_offset, u))} :
       \E entry_point_pc \in {ToNat(EntryRead(ptr, u))} :
       \E m0 \in {[Read(Read(Machine, pool_offset, usize), ptr, usize)
                      EXCEPT !.pc = entry_point_pc, !.pp = pool_offset,
                             !.stack_ptr = StackAddr, !.st = "loop"]} :
          IF u = "trap" /\ pool_offset + usize > bytecode_len
          THEN Commit(abort(Read(Machine, pool_offset, usize)))
          ELSE IF u = "trap" /\ ptr + usize > bytecode_len
               THEN Commit(abort(Read(Read(Machine, pool_offset, usize),
                                      ptr, usize)))
               ELSE IF entry_point_pc >= bytecode_len
                    THEN Commit([m0 EXCEPT !.es = BytecodeAccessViolation,
                                           !.st = "break"])
                    ELSE Commit(EntryFrame(m0))
    /\ UNCHANGED << image, overflow_checks, fill, ret, opcode, tmp_pc, freed,
                    hist >>

\* one iteration of 'operator whose opcode byte decodes to one of kinds
Iterate(kinds) ==
    /\ st = "loop"
    /\ pc + 1 <= bytecode_len
    /\ OpcodeFrom(image[pc + 1]) \in kinds
    /\ tmp_pc' = pc
    /\ hist' = SubSeq(<<Machine>> \o hist, 1,
                      IF Len(hist) < HistLen THEN Len(hist) + 1 ELSE HistLen)
    /\ opcode' = image[pc + 1]
    /\ \E u \in UBOf(OpcodeFrom(image[pc + 1])) :
       \E m \in {next_prg(Machine, 1).m} :
       \E r \in {Execute(m, OpcodeFrom(image[pc + 1]), u)} :
          Commit(r)
    /\ UNCHANGED << image, overflow_checks, fill, ret, freed >>

\* an iteration whose opcode fetch fails: next_prg!(u8) at the end of the image
FetchFault ==
    /\ st = "loop"
    /\ pc + 1 > bytecode_len
    /\ tmp_pc' = pc
    /\ hist' = SubSeq(<<Machine>> \o hist, 1,
                      IF Len(hist) < HistLen THEN Len(hist) + 1 ELSE HistLen)
    /\ \E r \in {next_prg(Machine, 1).m} : Commit(r)
    /\ UNCHANGED << image, overflow_checks, fill, ret, opcode, freed >>

Nop ==
    /\ Iterate({"Nop"})
Exit ==
    /\ Iterate({"Exit"})
Call ==
    /\ Iterate({"Call"})
Invoke ==
    /\ Iterate({"Invoke"})
Ret ==
    /\ Iterate({"Ret"})
APush ==
    /\ Iterate({"BAPush", "SAPush", "IAPush", "LAPush"})
Push ==
    /\ Iterate({"BPush", "SPush", "IPush", "LPush"})
Dup ==
    /\ Iterate({"Dup", "Dup2"})
Pop ==
    /\ Iterate({"Pop", "Pop2"})
Load ==
    /\ Iterate({"Load", "Load2"})
ALoad ==
    /\ Iterate({"BALoad", "SALoad", "IALoad", "LALoad"})
Store ==
    /\ Iterate({"Store", "Store2"})
AStore ==
    /\ Iterate({"BAStore", "SAStore", "IAStore", "LAStore"})
Drop ==
    /\ Iterate({"Drop"})
Calc ==
    /\ Iterate({"IAdd", "LAdd", "ISub", "LSub", "IMul", "LMul", "IDiv", "LDiv"})
Compare ==
    /\ Iterate({"IEq", "LEq", "IOrd", "LOrd", "IRevOrd", "LRevOrd",
                "IEqOrd", "LEqOrd"})
Goto ==
    /\ Iterate({"Goto"})
If ==
    /\ Iterate({"If", "IfNot"})
UnknownOp ==
    /\ Iterate({"Unknown"})

\* after the loop: free(stack_ptr.sub(sp)), and ExitStatus::from(es) is
\* returned
Epilogue ==
    /\ st = "break"
    /\ st' = "returned"
    /\ freed' = Append(freed, stack_ptr - sp)
    /\ ret' = ExitStatusFrom(es)
    /\ UNCHANGED << image, overflow_checks, fill, stack, heap, sp, bp, pc, pp,
                    es, opcode, tmp_pc, stack_ptr, hist, lo, rd >>
(***************************************************************************)
(* Program images.  An image is a 128-byte header, the pool (entry 0: the  *)
(* address of the cell holding the entry pc; entry i: the address of the   *)
(* descriptor of function i), the cell, the descriptors (start_addr: u64,  *)
(* var_len: u16, arg_len: u8), the entry code and the functions' code.     *)
(***************************************************************************)
U16(n) == LE(n, 2)
U32(n) == LE(n, 4)
U64(n) == LE(n, 8)
I16(n) == LE(IF n < 0 THEN n + 65536 ELSE n, 2)
Max32  == <<255, 255, 255, 255>>
Max64  == <<255, 255, 255, 255, 255, 255, 255, 255>>
Top32  == <<0, 0, 0, 128>>
Top64  == <<0, 0, 0, 0, 0, 0, 0, 128>>

Op(name)     == <<OpcodeInto(name)>>
Ins(name, b) == Op(name) \o b

RECURSIVE Flat(_)
\* the concatenation of a sequence of byte strings
Flat(ss) == IF ss = <<>> THEN <<>> ELSE Head(ss) \o Flat(Tail(ss))

Fn(var_len, arg_len, code) ==
    [var_len |-> var_len, arg_len |-> arg_len, code |-> code]

CellAddr(fns)  == pool_offset + usize * (1 + Len(fns))
DescAddr(fns, i) == CellAddr(fns) + usize + 11 * (i - 1)
CodeBase(fns)  == CellAddr(fns) + usize + 11 * Len(fns)
FnStart(entry, fns, i) ==
    CodeBase(fns) + Len(entry) + Len(Flat([j \in 1..(i - 1) |-> fns[j].code]))

MkImage(entry, fns) ==
    Zeros(pool_offset)
    \o U64(CellAddr(fns))
    \o Flat([i \in 1..Len(fns) |-> U64(DescAddr(fns, i))])
    \o U64(CodeBase(fns))
    \o Flat([i \in 1..Len(fns) |->
               U64(FnStart(entry, fns, i)) \o U16(fns[i].var_len)
                                           \o LE(fns[i].arg_len, 1)])
    \o entry
    \o Flat([i \in 1..Len(fns) |-> fns[i].code])

\* image img with the bytes bs at offset o
Patch(img, o, bs) ==
    [x \in 1..Len(img) |-> IF x > o /\ x <= o + Len(bs) THEN bs[x - o] ELSE img[x]]

\* S1: the entry code is the single byte Exit
ProgS1 == MkImage(Op("Exit"), <<>>)

\* S4: an unknown opcode byte at entry
ProgS4 == MkImage(<<255>>, <<>>)

\* Probes: k words are pushed, then the opcode byte b runs with a plain
\* immediate, in the entry frame or in the frame of a function called with
\* two words on the caller's stack.  Function 1 takes 2 arguments into 3
\* variables and returns at once.
MaxProbeWords == 6

ProbeImm(kind) ==
    CASE kind = "Call" -> <<1>>
      [] kind = "Invoke" -> U64(1)
      [] kind \in {"BAPush", "SAPush", "IAPush", "LAPush"} -> U64(2)
      [] kind = "BPush" -> <<171>>
      [] kind = "SPush" -> <<205, 171>>
      [] kind = "IPush" -> <<239, 205, 171, 137>>
      [] kind = "LPush" -> <<1, 35, 69, 103, 137, 171, 205, 239>>
      [] kind \in {"Load", "Load2", "Store", "Store2"} -> U16(0)
      [] kind \in {"Goto", "If", "IfNot"} -> I16(0)
      [] OTHER -> <<>>

ProbeBody(b, k) ==
    Flat([j \in 1..k |-> Ins("IPush", U32(j))])
    \o <<b>> \o ProbeImm(OpcodeFrom(b)) \o Op("Exit")

ProbeEntry(b, k) == MkImage(ProbeBody(b, k), <<Fn(3, 2, Op("Ret"))>>)

ProbeCallee(b, k) ==
    MkImage(Ins("IPush", U32(9)) \o Ins("IPush", U32(9)) \o Ins("Invoke", U64(2))
            \o Op("Exit"),
            <<Fn(3, 2, Op("Ret")), Fn(0, 0, ProbeBody(b, k))>>)

Probes ==
    {ProbeEntry(b, k) : b \in 0..49, k \in 0..MaxProbeWords}
    \cup {ProbeCallee(b, k) : b \in 0..49, k \in 0..MaxProbeWords}

\* l op r on u32 / u64 operands, then exit
ProgCalc(kind, l, r) ==
    MkImage(Ins(IF Len(l) = 8 THEN "LPush" ELSE "IPush", l)
            \o Ins(IF Len(l) = 8 THEN "LPush" ELSE "IPush", r)
            \o Op(kind) \o Op("Exit"), <<>>)

\* operands beyond the small ones of the probes: the boundary cases of the
\* two widths
Edge32 == {U32(0), U32(1), U32(2), U32(65535), U32(65536), U32(65537),
           <<254, 255, 255, 255>>, <<255, 255, 255, 127>>, Top32, Max32}

Edge64 == {U64(0), U64(1), U64(2), U64(3), ZeroExt(Max32, 8),
           <<0, 0, 0, 0, 1, 0, 0, 0>>, <<1, 0, 0, 0, 1, 0, 0, 0>>,
           <<254, 255, 255, 255, 255, 255, 255, 255>>,
           <<255, 255, 255, 255, 255, 255, 255, 127>>, Top64, Max64}

Calcs ==
    {ProgCalc(kind, l, r) : kind \in {"IAdd", "ISub", "IMul", "IDiv"},
                            l \in Edge32, r \in Edge32}
    \cup {ProgCalc(kind, l, r) : kind \in {"LAdd", "LSub", "LMul", "LDiv"},
                                 l \in Edge64, r \in Edge64}
    \cup {ProgCalc(kind, U32(l), U32(r)) :
             kind \in {"IAdd", "ISub", "IMul", "IDiv"},
             l \in {5, 7, 255, 1000}, r \in {0, 5, 7, 1000}}

\* Arrays.  The pointer is kept in variable 0..1 of the entry frame: an
\* array of n elements of width w is allocated, value stored at index arr_i
\* and loaded back from it, the array dropped.
APushOf(w)  == CASE w = 1 -> "BAPush" [] w = 2 -> "SAPush" [] w = 4 -> "IAPush"
                 [] OTHER -> "LAPush"
ALoadOf(w)  == CASE w = 1 -> "BALoad" [] w = 2 -> "SALoad" [] w = 4 -> "IALoad"
                 [] OTHER -> "LALoad"
AStoreOf(w) == CASE w = 1 -> "BAStore" [] w = 2 -> "SAStore" [] w = 4 -> "IAStore"
                 [] OTHER -> "LAStore"

ArrCode(w, n, arr_i, value) ==
    Ins("LPush", U64(0)) \o Ins(APushOf(w), U64(n)) \o Ins("Store2", U16(0))
    \o Ins("Load2", U16(0)) \o Ins("LPush", arr_i)
    \o Ins(IF w = 8 THEN "LPush" ELSE "IPush", value) \o Op(AStoreOf(w))
    \o Ins("Load2", U16(0)) \o Ins("LPush", arr_i) \o Op(ALoadOf(w))
    \o Ins("Load2", U16(0)) \o Op("Drop") \o Op("Exit")

ProgArr(w, n, arr_i, value) == MkImage(ArrCode(w, n, arr_i, value), <<>>)

\* S5: a 4-element byte array, 0xAB stored at index 2 and loaded back
ProgS5 == ProgArr(1, 4, U64(2), U32(171))

Indexes == {U64(0), U64(1), U64(2), <<0, 0, 0, 0, 0, 0, 0, 32>>,
            <<0, 0, 0, 0, 0, 0, 0, 64>>, Top64,
            <<255, 255, 255, 255, 255, 255, 255, 127>>, Max64}

Arrays ==
    {ProgArr(w, n, arr_i, <<239, 205, 171, 137>>) :
        w \in {1, 2, 4}, n \in 0..2, arr_i \in Indexes}
    \cup {ProgArr(8, n, arr_i, <<1, 35, 69, 103, 137, 171, 205, 239>>) :
             n \in 0..2, arr_i \in Indexes}
    \cup {ProgS5}

\* an array is read without having been written, after having been dropped,
\* or its length does not fit
ProgArrMisc ==
    {MkImage(Ins(APushOf(w), U64(1)) \o Ins("LPush", U64(0)) \o Op(ALoadOf(w))
             \o Op("Exit"), <<>>) : w \in {1, 2, 4, 8}}
    \cup {MkImage(Ins("LPush", U64(0)) \o Ins("BAPush", U64(1))
                  \o Ins("Store2", U16(0)) \o Ins("Load2", U16(0)) \o Op("Drop")
                  \o Ins("Load2", U16(0)) \o tail \o Op("Exit"), <<>>) :
             tail \in {Op("Drop"), Ins("LPush", U64(0)) \o Op("BALoad"),
                       Ins("Call", <<1>>)}}
    \cup {MkImage(Ins(APushOf(w), n) \o Op("Exit"), <<>>) :
             w \in {1, 8}, n \in {U64(17), Top64, Max64,
                                  <<0, 0, 0, 0, 0, 0, 0, 32>>}}
    \cup {MkImage(Ins("BAPush", U64(2)) \o Ins("Call", <<c>>) \o Op("Exit"), <<>>) :
             c \in {0, 1, 2, 255}}

\* Pointers that were not given by an allocation: an address in the operand
\* stack.  The caller's top 8 bytes, just below the callee's frame, stand
\* for the header; element 0 is then the saved bp of the callee's frame and
\* element 1 its return address.
ProgForged(tail) ==
    MkImage(Ins("LPush", U64(64)) \o Ins("Invoke", U64(1)) \o Op("Exit"),
            <<Fn(0, 0, Ins("LPush", U64(StackAddr + 16)) \o tail)>>)

\* The same in the entry frame: element arr_i of the array at arr_ptr is the
\* return address of the entry frame, at stack offset 8.  The header is the
\* 8 bytes before the malloc'ed stack, or the return address itself with an
\* index that wraps.  The value stored is the address of the goto, which
\* jumps to itself.
ProgForgedEntry(arr_ptr, arr_i) ==
    MkImage(Ins("LPush", arr_ptr) \o Ins("LPush", arr_i)
            \o Ins("LPush", U64(CodeBase(<<>>) + 29)) \o Op("LAStore")
            \o Op("Ret") \o Ins("Goto", I16(-3)) \o Op("Exit"), <<>>)

\* The same, the value stored being the address of an Invoke: the Ret of the
\* entry frame leaves sp = bp = 0 and continues at the Invoke.
ProgForgedInvoke(var_len, arg_len) ==
    MkImage(Ins("LPush", U64(StackAddr - 8)) \o Ins("LPush", U64(1))
            \o Ins("LPush", U64(CodeBase(<<0>>) + 29)) \o Op("LAStore")
            \o Op("Ret") \o Ins("Invoke", U64(1)) \o Op("Exit"),
            <<Fn(var_len, arg_len, Op("Exit"))>>)

\* The pointer, the index and the value are the six argument words of the
\* callee, whose first opcode stores; the word 64 below them stands for the
\* header, so that element 0 is the callee's saved bp, at stack offset 24,
\* and element 1 its return address, at 32.
ProgForgedArgs(arr_i, value) ==
    MkImage(Ins("LPush", U64(64)) \o Ins("LPush", U64(StackAddr + 16))
            \o Ins("LPush", arr_i) \o Ins("LPush", value)
            \o Ins("Invoke", U64(1)) \o Op("Exit"),
            <<Fn(6, 6, Op("LAStore") \o Op("Ret"))>>)

Forged ==
    {ProgForged(Ins("LPush", arr_i) \o Ins("LPush", value) \o Op("LAStore")
                \o Op("Ret")) :
        arr_i \in {U64(0), U64(1)}, value \in {U64(8), U64(2000), Max64}}
    \cup {ProgForged(Ins("LPush", arr_i) \o Op("LALoad") \o Op("Exit")) :
             arr_i \in {U64(0), U64(1), U64(2)}}
    \cup {ProgForged(Op("Drop") \o Op("Exit"))}
    \cup {ProgForgedEntry(U64(StackAddr - 8), U64(1)),
          ProgForgedEntry(U64(StackAddr + 8), Max64)}
    \cup {ProgForgedArgs(arr_i, value) :
             arr_i \in {U64(0), U64(1), U64(2)}, value \in {U64(8), U64(2000)}}
    \cup {ProgForgedInvoke(0, 0), ProgForgedInvoke(1, 0),
          ProgForgedInvoke(1, 1)}

\* Branches: a condition word, the branch with offset off, three Nop, Exit.
\* The code is the end of the image.
ProgBranch(kind, cond, off) ==
    MkImage(Ins("IPush", cond) \o Ins(kind, I16(off))
            \o Op("Nop") \o Op("Nop") \o Op("Nop") \o Op("Exit"), <<>>)

ProgGoto(off) ==
    MkImage(Ins("Goto", I16(off))
            \o Op("Nop") \o Op("Nop") \o Op("Nop") \o Op("Exit"), <<>>)

\* scenario S6: ipush 0; ifnot +3; ipush 1; exit; exit
ProgS6 ==
    MkImage(Ins("IPush", U32(0)) \o Ins("IfNot", I16(3))
            \o Ins("IPush", U32(1)) \o Op("Exit") \o Op("Exit"), <<>>)

Offsets == {0, 1, 3, 4, 5, -1, -3, -8, -152, -153, 32767, -32768}

Branches ==
    {ProgBranch(kind, cond, off) :
        kind \in {"If", "IfNot"}, off \in Offsets,
        cond \in {U32(0), U32(1), U32(256), Top32, Max32}}
    \cup {ProgGoto(off) : off \in Offsets \cup {-147, -148}}
    \cup {MkImage(Ins("IPush", U32(1)) \o Op(kind) \o tail, <<>>) :
             kind \in {"Goto", "If", "IfNot"}, tail \in {<<>>, <<0>>}}
    \cup {ProgS6}

\* The top of the stack.  A function with var_len variables is invoked from
\* the entry frame, which puts sp at 32 + 4 * var_len, and runs code.
ProgNearTop(var_len, code) ==
    MkImage(Ins("Invoke", U64(1)) \o Op("Exit"), <<Fn(var_len, 0, code)>>)

PushRuns ==
    {Ins(kind, ProbeImm(kind)) \o Ins(kind, ProbeImm(kind))
                               \o Ins(kind, ProbeImm(kind)) \o Op("Exit") :
        kind \in {"BPush", "SPush", "IPush", "LPush", "Load", "Load2",
                  "BAPush"}}
    \cup {Op(kind) \o Op(kind) \o Op(kind) \o Op("Exit") : kind \in {"Dup", "Dup2"}}
    \cup {Op("Ret")}

\* sp is taken off the 4-byte grid by the 1 or 2 bytes an array load pushes
OffGrid(w) ==
    Ins(APushOf(w), U64(1)) \o Ins("LPush", U64(0)) \o Op(ALoadOf(w))
    \o Ins("LPush", U64(3)) \o Ins("IPush", U32(3)) \o Ins("IPush", U32(3))
    \o Op("Dup") \o Op("Exit")

NearTop ==
    {ProgNearTop(var_len, code) : var_len \in 244..250, code \in PushRuns}
    \cup {ProgNearTop(var_len, OffGrid(w)) : var_len \in 241..244, w \in {1, 2}}
    \cup {ProgNearTop(var_len, Op("Exit")) : var_len \in {300, 65535}}

\* pushes, and calls, without end
Loops ==
    {MkImage(Ins("LPush", U64(5)) \o Ins("Goto", I16(-12)), <<>>),
     MkImage(Ins("Invoke", U64(1)) \o Op("Exit"),
             <<Fn(2, 0, Ins("Invoke", U64(1)) \o Op("Ret"))>>),
     MkImage(Ins("IPush", U32(5)) \o Ins("Invoke", U64(1)) \o Op("Exit"),
             <<Fn(1, 1, Ins("Load", U16(0)) \o Ins("Invoke", U64(1)) \o Op("Ret"))>>)}

\* Calls: arguments and variables, a return into the caller, the return of
\* the entry frame (to the last byte of the image), descriptors that do not
\* fit and pool indexes outside the pool
Calls ==
    {MkImage(Flat([j \in 1..k |-> Ins("IPush", U32(j))]) \o Ins("Invoke", U64(1))
             \o Op("Pop") \o Op("Exit"),
             <<Fn(var_len, arg_len, code)>>) :
        k \in 0..3, var_len \in 0..3, arg_len \in 0..3,
        code \in {Op("Ret"), Ins("Load", U16(0)) \o Op("Ret"),
                  Ins("Load", U16(1)) \o Op("Ret"),
                  Ins("Load", U16(2)) \o Op("Exit"),
                  Ins("IPush", U32(7)) \o Ins("Store", U16(1))
                  \o Ins("Load2", U16(0)) \o Op("Ret")}}
    \cup {MkImage(Ins("IPush", U32(5)) \o Ins("Invoke", U64(1)) \o Op("Exit"),
                  <<Fn(1, 1, Ins("Load", U16(0)) \o Ins("Invoke", U64(2))
                             \o Op("Ret")),
                    Fn(2, 1, Ins("Load", U16(0)) \o Op("Ret"))>>),
          MkImage(Ins("IPush", U32(5)) \o Ins("Invoke", U64(1)) \o Op("Exit"),
                  <<Fn(1, 1, Ins("Invoke", U64(2)) \o Op("Ret")),
                    Fn(0, 0, Op("Ret"))>>)}
    \cup {MkImage(Op("Ret") \o last, <<>>) :
             last \in {<<>>, Op("Nop"), Op("Exit"), Ins("IPush", U32(1))}}
    \cup {MkImage(Ins("Invoke", pool_i) \o Op("Exit"), <<Fn(1, 0, Op("Ret"))>>) :
             pool_i \in {U64(0), U64(2), U64(3), U64(1000), Top64, Max64,
                         <<0, 0, 0, 0, 0, 0, 0, 32>>,
                         <<1, 0, 0, 0, 0, 0, 0, 32>>}}

\* images whose first pool entry, or the cell it names, is no entry point
BadBoot ==
    {Patch(ProgS1, pool_offset, a) : a \in {U64(0), U64(1000), Max64}}
    \cup {Patch(ProgS1, pool_offset + usize, a) :
             a \in {U64(0), U64(144), U64(145), U64(146), U64(1000), Max64}}
    \cup {Zeros(pool_offset), Zeros(pool_offset + usize), <<>>}

\* the start address of function 1 is patched: the end of the image, past
\* it (start_addr = -2, -1), its last byte (-3), the header
ProgStart(start_addr) ==
    Let(MkImage(Ins("IPush", U32(1)) \o Ins("Invoke", U64(1)) \o Op("Exit"),
                <<Fn(2, 1, Op("Ret"))>>), LAMBDA img :
        Patch(img, DescAddr(<<0>>, 1),
              IF start_addr < 0 THEN U64(Len(img) + start_addr + 2)
              ELSE U64(start_addr)))

\* an Invoke is the end of the image, so that the return address it pushes
\* is bytecode_len: function 1 is the Ret inside the entry code
ProgRetToEnd ==
    Let(MkImage(Ins("Goto", I16(1)) \o Op("Ret") \o Ins("Invoke", U64(1)),
                <<Fn(0, 0, <<>>)>>), LAMBDA img :
        Patch(img, DescAddr(<<0>>, 1), U64(CodeBase(<<0>>) + 3)))

Starts ==
    {ProgStart(a) : a \in {-3, -2, -1, 0, 1, 127, 100000}} \cup {ProgRetToEnd}

\* bytes that are no opcode, first in the entry code and after a push
Unknowns ==
    {MkImage(<<b>>, <<>>) : b \in {49, 50, 127, 128, 254, 255}}
    \cup {MkImage(Ins("IPush", U32(1)) \o <<b>> \o Op("Exit"), <<>>) :
             b \in {49, 50, 127, 128, 254, 255}}

\* S7: a function with var_len = 1, arg_len = 0 executes load 5
ProgS7 ==
    MkImage(Ins("Invoke", U64(1)) \o Op("Exit"),
            <<Fn(1, 0, Ins("Load", U16(5)) \o Op("Exit"))>>)

\* the variable table: k words are pushed above var_len variables, then
\* variable var_i is loaded or stored
ProgVar(var_len, k, kind, var_i) ==
    MkImage(Ins("Invoke", U64(1)) \o Op("Exit"),
            <<Fn(var_len, 0,
                 Flat([j \in 1..k |-> Ins("IPush", U32(16843009 * j))])
                 \o Ins(kind, U16(var_i)) \o Op("Exit"))>>)

Vars ==
    {ProgVar(var_len, k, kind, var_i) :
        var_len \in 0..3, k \in 0..3,
        kind \in {"Load", "Load2", "Store", "Store2"},
        var_i \in {0, 1, 2, 3, 5, 65535}}
    \cup {ProgS7}

\* the array opcodes as programs that take the length from the stack would
\* use them: the length is pushed, no immediate follows
SpecAPush ==
    {MkImage(Ins("LPush", U64(4)) \o Op(APushOf(w)) \o tail \o Op("Exit"), <<>>) :
        w \in {1, 2, 4, 8},
        tail \in {<<>>, <<0, 0, 0, 0, 0, 0, 0>>, <<0, 0, 0, 0, 0, 0, 0, 0>>}}

\* the return of the entry frame, to the last byte of the image, whatever
\* that byte is
Sentinels ==
    {MkImage(Op("Ret") \o <<b>>, <<>>) : b \in 0..50 \cup {255}}
    \cup {MkImage(Ins("IPush", U32(1)) \o Ins("LPush", U64(2)) \o Op("Ret")
                  \o <<b>>, <<>>) : b \in {0, 1, 4, 13, 15, 46}}

Images ==
    {ProgS1, ProgS4} \cup Probes \cup Calcs \cup Arrays \cup ProgArrMisc
    \cup Forged \cup Branches \cup NearTop \cup Loops \cup Calls \cup BadBoot
    \cup Starts \cup Unknowns \cup Vars \cup SpecAPush \cup Sentinels

FillBytes == {0, 205}

Init ==
    /\ image \in Images
    /\ overflow_checks \in BOOLEAN
    /\ fill \in FillBytes
    /\ stack = <<>>
    /\ heap = <<>>
    /\ sp = 0 /\ bp = 0 /\ pc = 0 /\ pp = 0
    /\ es = Success
    /\ st = "init"
    /\ ret = Unknown
    /\ opcode = 0
    /\ tmp_pc = 0
    /\ hist = <<>>
    /\ stack_ptr = 0
    /\ freed = <<>>
    /\ lo = max_stack_size
    /\ rd = 0

Next ==
    \/ Boot \/ Nop \/ Exit \/ Call \/ Invoke \/ Ret \/ APush \/ Push \/ Dup
    \/ Pop \/ Load \/ ALoad \/ Store \/ AStore \/ Drop \/ Calc \/ Compare
    \/ Goto \/ If \/ UnknownOp \/ FetchFault \/ Epilogue

Spec == Init /\ [][Next]_vars

(***************************************************************************)
(* Properties.  Pre is the machine before the last iteration of the loop,  *)
(* Kind the opcode that iteration fetched.                                 *)
(***************************************************************************)
Pre     == hist[1]
Fetched == hist # <<>> /\ hist[1].pc < bytecode_len
Kind    == OpcodeFrom(image[hist[1].pc + 1])
Left    == st \in {"break", "returned"}

\* the k-th iteration back fetched an opcode of kinds
FetchedAt(k, kinds) ==
    /\ Len(hist) >= k
    /\ hist[k].pc < bytecode_len
    /\ OpcodeFrom(image[hist[k].pc + 1]) \in kinds

\* the w bytes after the opcode of the k-th iteration back
ImmAt(k, w) == ImageAt(hist[k].pc + 1, w)
HasImm(k, w) == hist[k].pc + 1 + w <= bytecode_len

Min(a, b) == IF a < b THEN a ELSE b

\* C1: in every state 0 <= bp <= sp <= MAX_STACK (1024).
C1_FrameBounds == 0 <= bp /\ bp <= sp /\ sp <= max_stack_size

\* C2: an Invoke followed at once by a Ret restores pc to the byte after the
\* Invoke's u64 immediate, bp to its value before the Invoke, and sp to its
\* value before the Invoke less 4 * arg_len.
C2_InvokeRet ==
    (FetchedAt(2, {"Invoke"}) /\ FetchedAt(1, {"Ret"}) /\ Running(hist[1]))
    => /\ st = "loop"
       /\ pc = hist[2].pc + 1 + usize
       /\ bp = hist[2].bp
       /\ sp = hist[2].sp
               - 4 * Descriptor([hist[2] EXCEPT !.pc = @ + 1]).arg_len

\* a function of two arguments has been invoked and has returned at once
C2_Reached ==
    /\ FetchedAt(2, {"Invoke"}) /\ FetchedAt(1, {"Ret"})
    /\ Descriptor([hist[2] EXCEPT !.pc = @ + 1]).arg_len = 2
    /\ hist[2].bp > 0
    /\ st = "loop" /\ sp = hist[2].sp - 8

\* C3: a fault found in the loop ends it at once: with a status recorded the
\* loop has been left, once it has been left no opcode is fetched and pc,
\* sp, bp, the stack and the arrays stay as they are, and the status
\* returned is the one recorded.
C3_FaultEnds ==
    /\ [](es # Success => st \in {"break", "returned"})
    /\ [][st \notin {"init", "loop"}
            => UNCHANGED << pc, sp, bp, pp, stack, heap, es, opcode, tmp_pc, hist >>]_vars
    /\ [](st = "returned" => ret = es)

\* a run has returned the fault of a handler that had already popped
C3_Reached ==
    /\ st = "returned" /\ ret = ArrayAccessViolation
    /\ FetchedAt(1, {"LAStore"}) /\ sp = Pre.sp - 24

\* the opcodes, other than Ret, that pop or peek
PopKinds ==
    {"Pop", "Pop2", "Dup", "Dup2", "Store", "Store2", "BALoad", "SALoad",
     "IALoad", "LALoad", "BAStore", "SAStore", "IAStore", "LAStore", "Drop",
     "IAdd", "LAdd", "ISub", "LSub", "IMul", "LMul", "IDiv", "LDiv", "IEq",
     "LEq", "IOrd", "LOrd", "IRevOrd", "LRevOrd", "IEqOrd", "LEqOrd", "If",
     "IfNot", "Call", "Invoke"}

\* the bytes the last opcode pops (peeks, for Dup) in all
PopNeed ==
    CASE Kind \in {"Pop", "Dup", "Store", "If", "IfNot"} -> 4
      [] Kind \in {"Pop2", "Dup2", "Store2", "Drop"} -> 8
      [] Kind \in {"BALoad", "SALoad", "IALoad", "LALoad"} -> 16
      [] Kind \in {"BAStore", "SAStore", "IAStore"} -> 20
      [] Kind = "LAStore" -> 24
      [] Kind = "Call" -> IF ImmAt(1, 1) = <<1>> THEN 8 ELSE 0
      [] Kind = "Invoke" ->
            4 * Descriptor([Pre EXCEPT !.pc = @ + 1]).arg_len
      [] OTHER -> 2 * WidthOf(Kind)

\* the last opcode came to its pops: the immediate read before them was there
PopReached ==
    CASE Kind \in {"Store", "Store2"} -> HasImm(1, 2)
      [] Kind = "Call" -> HasImm(1, 1)
      [] Kind = "Invoke" -> Running(Descriptor([Pre EXCEPT !.pc = @ + 1]).m)
      [] OTHER -> TRUE

\* C4: an opcode other than Ret that pops or peeks ends the run with
\* StackAccessViolation when the frame holds fewer bytes above bp + 16 than
\* it pops, and no such opcode reads or removes stack bytes below bp + 16.
C4_PopsStayInFrame ==
    (Fetched /\ Kind \in PopKinds)
    => /\ (PopReached /\ PopNeed > 0 /\ Pre.sp < Pre.bp + 16 + PopNeed)
            => (Left /\ es = StackAccessViolation)
       /\ sp >= Min(Pre.sp, Pre.bp + 16)
       /\ lo >= Pre.bp + 16

\* the first part of C4 alone
C4_PopFaults ==
    (Fetched /\ Kind \in PopKinds)
    => /\ (PopReached /\ PopNeed > 0 /\ Pre.sp < Pre.bp + 16 + PopNeed)
            => (Left /\ es = StackAccessViolation)
       /\ sp >= Min(Pre.sp, Pre.bp + 16)

\* The last opcode came to a push of PushValue at offset PushSp: a push
\* opcode whose immediate was there, a Dup with its operand in the frame, a
\* Load of a variable of the frame.
PushKinds == {"BPush", "SPush", "IPush", "LPush", "Dup", "Dup2", "Load", "Load2"}

PushReached ==
    CASE Kind \in {"BPush", "SPush", "IPush", "LPush"} -> HasImm(1, WidthOf(Kind))
      [] Kind \in {"Dup", "Dup2"} -> Pre.sp >= Pre.bp + 16 + WidthOf(Kind)
      [] Kind \in {"Load", "Load2"} ->
            /\ HasImm(1, 2)
            /\ Pre.sp >= Pre.bp + 16 + 4 * ToNat(ImmAt(1, 2)) + WidthOf(Kind)

PushValue ==
    CASE Kind \in {"BPush", "SPush", "IPush"} -> ZeroExt(ImmAt(1, WidthOf(Kind)), 4)
      [] Kind = "LPush" -> ImmAt(1, 8)
      [] Kind \in {"Dup", "Dup2"} ->
            StackAt(Pre.stack, Pre.sp - WidthOf(Kind), WidthOf(Kind))
      [] Kind \in {"Load", "Load2"} ->
            StackAt(Pre.stack, Pre.bp + 16 + 4 * ToNat(ImmAt(1, 2)), WidthOf(Kind))

\* C5: a push of w bytes succeeds iff sp + w <= 1024; then sp grows by w and
\* the value lies at [sp, sp + w); otherwise the run ends with StackOverflow
\* and sp and the stack bytes are as before.  The 1- and 2-byte pushes are
\* those of the byte and short array loads, made after 16 bytes were popped.
C5_Push ==
    /\ (Fetched /\ Kind \in PushKinds /\ PushReached)
       => IF Pre.sp + Len(PushValue) <= max_stack_size
          THEN /\ st = "loop" /\ es = Success
               /\ sp = Pre.sp + Len(PushValue)
               /\ StackAt(stack, Pre.sp, Len(PushValue)) = PushValue
          ELSE /\ Left /\ es = StackOverflow
               /\ sp = Pre.sp
               /\ stack = Pre.stack
    /\ (Fetched /\ Kind \in {"BALoad", "SALoad"} /\ st = "loop")
       => sp = Pre.sp - 16 + WidthOf(Kind)

\* a 4-byte push met sp = 1022, two bytes short of the end of the stack
C5_Reached ==
    /\ Fetched /\ Kind = "IPush" /\ PushReached
    /\ Pre.sp = max_stack_size - 2
    /\ Left /\ es = StackOverflow /\ sp = Pre.sp

\* the operands of the last opcode, an arithmetic one: left below right
CalcW     == WidthOf(Kind)
CalcReady == Fetched /\ Pre.sp >= Pre.bp + 16 + 2 * CalcW
CalcLeft  == StackAt(Pre.stack, Pre.sp - 2 * CalcW, CalcW)
CalcRight == StackAt(Pre.stack, Pre.sp - CalcW, CalcW)

\* the exact sum, difference or product of a and b, twice their length; the
\* difference is that of b <= a
ExactResult(kind, a, b) ==
    CASE kind \in {"IAdd", "LAdd"} -> ZeroExt(AddC(a, b, 0), 2 * Len(a))
      [] kind \in {"IMul", "LMul"} -> MulFull(a, b)
      [] kind \in {"ISub", "LSub"} ->
            ZeroExt(SubSeq(SubC(a, b, 0), 1, Len(a)), 2 * Len(a))

\* ... and whether it lies in the operands' type
InRange(kind, a, b) ==
    IF kind \in {"ISub", "LSub"} THEN ~LessB(a, b)
    ELSE IsZero(SubSeq(ExactResult(kind, a, b), Len(a) + 1, 2 * Len(a)))

\* the result on operands that are small enough for the integers
SmallResult(kind, a, b) ==
    CASE kind \in {"IAdd", "LAdd"} -> a + b
      [] kind \in {"IMul", "LMul"} -> a * b
      [] kind \in {"ISub", "LSub"} -> a - b

\* the result has replaced the two operands
CalcPushed(value) ==
    /\ st = "loop" /\ es = Success
    /\ sp = Pre.sp - CalcW
    /\ StackAt(stack, Pre.sp - 2 * CalcW, CalcW) = value

\* the run has ended with status, the operands popped and nothing pushed
CalcFailed(status) ==
    /\ Left /\ es = status
    /\ sp = Pre.sp - 2 * CalcW
    /\ stack = Pre.stack

\* C6: iadd, isub, imul (u32) and ladd, lsub, lmul (u64), left operand pushed
\* first: the exact result is pushed in place of the operands when it lies
\* in the type, otherwise the run ends with ArithmeticOverflow and nothing
\* is pushed.
C6_CheckedArith ==
    (Fetched /\ Kind \in {"IAdd", "LAdd", "ISub", "LSub", "IMul", "LMul"}
     /\ CalcReady)
    => /\ IF InRange(Kind, CalcLeft, CalcRight)
          THEN CalcPushed(Trunc(ExactResult(Kind, CalcLeft, CalcRight), CalcW))
          ELSE CalcFailed(ArithmeticOverflow)
       /\ (ToNat(CalcLeft) < 4096 /\ ToNat(CalcRight) < 4096)
          => IF SmallResult(Kind, ToNat(CalcLeft), ToNat(CalcRight)) >= 0
             THEN CalcPushed(LE(SmallResult(Kind, ToNat(CalcLeft),
                                            ToNat(CalcRight)), CalcW))
             ELSE CalcFailed(ArithmeticOverflow)

\* S2, 0xFFFFFFFF + 1, has ended with ArithmeticOverflow
C6_Reached ==
    /\ image = ProgCalc("IAdd", Max32, U32(1))
    /\ Fetched /\ Kind = "IAdd" /\ CalcLeft = Max32 /\ CalcRight = U32(1)
    /\ CalcFailed(ArithmeticOverflow)
    /\ st = "returned" /\ ret = ArithmeticOverflow

\* q is the truncated quotient a / b: q * b <= a < (q + 1) * b
IsQuotient(q, a, b) ==
    /\ ~LessB(ZeroExt(a, 2 * Len(a)), MulFull(q, b))
    /\ LessB(ZeroExt(a, 2 * Len(a) + 1),
             AddC(MulFull(q, b), ZeroExt(b, 2 * Len(a)), 0))

\* C7: idiv (u32) and ldiv (u64) put the truncated quotient left / right in
\* place of the operands when right is not zero and end the run with
\* DivideByZero when it is; never ArithmeticOverflow, never a host trap.
C7_Division ==
    (Fetched /\ Kind \in {"IDiv", "LDiv"} /\ CalcReady)
    => /\ IF IsZero(CalcRight)
          THEN CalcFailed(DivideByZero)
          ELSE /\ st = "loop" /\ es = Success /\ sp = Pre.sp - CalcW
               /\ IsQuotient(StackAt(stack, Pre.sp - 2 * CalcW, CalcW),
                             CalcLeft, CalcRight)
       /\ (ToNat(CalcLeft) < 4096 /\ ToNat(CalcRight) < 4096 /\ ~IsZero(CalcRight))
          => CalcPushed(LE(ToNat(CalcLeft) \div ToNat(CalcRight), CalcW))

\* S3, 7 / 0, has ended with DivideByZero
C7_Reached ==
    /\ image = ProgCalc("IDiv", U32(7), U32(0))
    /\ Fetched /\ Kind = "IDiv" /\ CalcLeft = U32(7) /\ CalcRight = U32(0)
    /\ CalcFailed(DivideByZero)
    /\ st = "returned" /\ ret = DivideByZero

\* The operands of the array opcode fetched k iterations back: the value on
\* top for a store (4 bytes, 8 for lastore), the index below it, the pointer
\* below the index.
ALoads  == {"BALoad", "SALoad", "IALoad", "LALoad"}
AStores == {"BAStore", "SAStore", "IAStore", "LAStore"}

ArrKindAt(k) == OpcodeFrom(image[hist[k].pc + 1])
ArrPopAt(k) ==
    IF ArrKindAt(k) \in ALoads THEN 0
    ELSE IF ArrKindAt(k) = "LAStore" THEN 8 ELSE 4
ArrReadyAt(k) ==
    /\ FetchedAt(k, ALoads \cup AStores)
    /\ hist[k].sp >= hist[k].bp + 16 + ArrPopAt(k) + 16
ArrValueAt(k) == StackAt(hist[k].stack, hist[k].sp - ArrPopAt(k), ArrPopAt(k))
ArrIndexAt(k) == StackAt(hist[k].stack, hist[k].sp - ArrPopAt(k) - 8, 8)
ArrPtrAt(k)   == StackAt(hist[k].stack, hist[k].sp - ArrPopAt(k) - 16, 8)

\* the pointer is that of an allocated array, the BufAt(k)-th buffer
ArrLiveAt(k) ==
    \E b \in 1..Len(hist[k].heap) :
        ArrAddr(b) = ArrPtrAt(k) /\ hist[k].heap[b].live
BufAt(k) == CHOOSE b \in 1..Len(hist[k].heap) : ArrAddr(b) = ArrPtrAt(k)
HeaderAt(k) == SubSeq(hist[k].heap[BufAt(k)].buf, 1, usize)

\* (i + 1) * s <= n, exactly, for a u64 index i and a u64 size n
InBounds(i, s, n) ==
    ~LessB(ZeroExt(n, 10), MulFull(AddC(i, LE(1, 8), 0), <<s>>))

\* buffer buf with the bytes bs as element i of width Len(bs)
WithElem(buf, i, bs) ==
    [x \in 1..Len(buf) |->
        IF x > 8 + i * Len(bs) /\ x <= 8 + (i + 1) * Len(bs)
        THEN bs[x - 8 - i * Len(bs)] ELSE buf[x]]

\* C8: an array load or store of element width s at index i of an array whose
\* header holds n is performed iff (i + 1) * s <= n; otherwise the run ends
\* with ArrayAccessViolation and no array byte is read to the stack or
\* written.
C8_ArrayBounds ==
    (ArrReadyAt(1) /\ ArrLiveAt(1))
    => IF InBounds(ArrIndexAt(1), WidthOf(Kind), HeaderAt(1))
       THEN /\ st = "loop" /\ es = Success
            /\ IF Kind \in ALoads
               THEN /\ sp = Pre.sp - 16 + WidthOf(Kind)
                    /\ heap = Pre.heap
               ELSE /\ sp = Pre.sp - ArrPopAt(1) - 16
                    /\ stack = Pre.stack
       ELSE /\ Left /\ es = ArrayAccessViolation
            /\ sp = Pre.sp - ArrPopAt(1) - 16
            /\ stack = Pre.stack
            /\ heap = Pre.heap

\* C8 for the indexes below 2^61, where (i + 1) * s does not leave the u64
C8_NoWrap ==
    (ArrReadyAt(1) /\ ArrLiveAt(1) /\ ArrIndexAt(1)[8] < 32)
    => C8_ArrayBounds

\* the array opcode k iterations back had an allocated array with its header
\* as allocated, and an index inside it
ArrInsideAt(k) ==
    /\ ArrReadyAt(k) /\ ArrLiveAt(k)
    /\ ToNat(HeaderAt(k)) + 8 = Len(hist[k].heap[BufAt(k)].buf)
    /\ (ToNat(ArrIndexAt(k)) + 1) * WidthOf(ArrKindAt(k)) <= ToNat(HeaderAt(k))

\* C9: a store of v at an index inside an array raises no fault and leaves the
\* low s bytes of v in the element; the load of the same element that
\* follows it (the pointer and the index pushed again in between) pushes
\* those s bytes, v & 0xFF for bastore/baload, v & 0xFFFF for
\* sastore/saload, v for the i and l pairs.  S5 returns Success.
C9_RoundTrip ==
    /\ (FetchedAt(1, AStores) /\ ArrInsideAt(1))
       => /\ st = "loop" /\ es = Success
          /\ heap = [Pre.heap EXCEPT ![BufAt(1)].buf =
                        WithElem(@, ToNat(ArrIndexAt(1)),
                                 Trunc(ArrValueAt(1), WidthOf(Kind)))]
    /\ (/\ FetchedAt(4, AStores) /\ ArrInsideAt(4)
        /\ FetchedAt(3, {"Load2"}) /\ FetchedAt(2, {"LPush"})
        /\ FetchedAt(1, ALoads) /\ ArrReadyAt(1)
        /\ WidthOf(ArrKindAt(1)) = WidthOf(ArrKindAt(4))
        /\ ArrPtrAt(1) = ArrPtrAt(4) /\ ArrIndexAt(1) = ArrIndexAt(4))
       => /\ st = "loop" /\ es = Success
          /\ sp = Pre.sp - 16 + WidthOf(Kind)
          /\ StackAt(stack, Pre.sp - 16, WidthOf(Kind))
                = Trunc(ArrValueAt(4), WidthOf(Kind))
    /\ (image = ProgS5 /\ st = "returned") => ret = Success

\* S5 has returned Success, its baload having pushed 0xAB
C9_Reached ==
    /\ image = ProgS5 /\ st = "returned" /\ ret = Success
    /\ FetchedAt(4, {"BALoad"}) /\ ArrIndexAt(4) = U64(2)
    /\ StackAt(stack, hist[4].sp - 16, 1) = <<171>>

\* the branch fetched by the last iteration, its offset and its target
BranchOffset == Signed16(ImmAt(1, 2))
BranchTarget == Pre.pc + 3 + BranchOffset
BranchCond   == StackAt(Pre.stack, Pre.sp - 4, 4)
BranchTaken  ==
    \/ Kind = "Goto"
    \/ Kind = "If" /\ ~IsZero(BranchCond)
    \/ Kind = "IfNot" /\ IsZero(BranchCond)

\* C10: goto continues at (pc after its i16 offset) + offset; if pops a u32
\* and branches so iff it is not zero, ifnot iff it is zero; a conditional
\* branch not taken continues at the opcode's address + 3.
C10_Branch ==
    (/\ FetchedAt(1, {"Goto", "If", "IfNot"}) /\ HasImm(1, 2)
     /\ (Kind = "Goto" \/ Pre.sp >= Pre.bp + 16 + 4))
    => /\ sp = IF Kind = "Goto" THEN Pre.sp ELSE Pre.sp - 4
       /\ IF BranchTaken
          THEN /\ st = "loop" => pc = BranchTarget
               /\ (0 <= BranchTarget /\ BranchTarget < bytecode_len)
                     => st = "loop"
          ELSE st = "loop" /\ pc = Pre.pc + 3

\* an if on 0x80000000 has branched 3 bytes on, over the three Nop
C10_Reached ==
    /\ FetchedAt(1, {"If"}) /\ HasImm(1, 2) /\ BranchCond = Top32
    /\ BranchOffset = 3
    /\ st = "loop" /\ pc = Pre.pc + 6
    /\ OpcodeFrom(image[pc + 1]) = "Exit"

(***************************************************************************)
(* Properties of the cursors into the image, the decoding, the variable    *)
(* table and the frames.                                                   *)
(***************************************************************************)

\* the descriptor the Invoke of the k-th iteration back read
DescAt(k) == Descriptor([hist[k] EXCEPT !.pc = @ + 1])

\* The last iteration came to an assignment of pc - the jump of a taken
\* branch, of an Invoke whose frame was built, of a Ret - and JumpTarget is
\* the value assigned.
JumpReached ==
    CASE Kind \in {"Goto", "If", "IfNot"} ->
            /\ HasImm(1, 2)
            /\ (Kind = "Goto" \/ Pre.sp >= Pre.bp + 16 + 4)
            /\ BranchTaken
      [] Kind = "Invoke" ->
            Running(InvokeFrame(DescAt(1).m, 0, DescAt(1).var_len,
                                DescAt(1).arg_len))
      [] Kind = "Ret" -> Pre.sp >= Pre.bp + 16
      [] OTHER -> FALSE

JumpTarget ==
    CASE Kind \in {"Goto", "If", "IfNot"} -> BranchTarget
      [] Kind = "Invoke" -> DescAt(1).start_addr
      [] Kind = "Ret" -> ToNat(StackAt(Pre.stack, Pre.bp + 8, 8))

\* C11: whenever an opcode fetch is attempted pc is in [0, bytecode_len): a
\* jump of goto/if/ifnot, Invoke or Ret to a target outside [0, bytecode_len)
\* ends the run with BytecodeAccessViolation at that opcode, and the loop
\* never comes to a fetch with pc >= bytecode_len.
C11_FetchInImage ==
    /\ st = "loop" => pc < bytecode_len
    /\ (Fetched /\ JumpReached
        /\ ~(0 <= JumpTarget /\ JumpTarget < bytecode_len))
       => (Left /\ es = BytecodeAccessViolation)

\* the jumps alone: a target outside [0, bytecode_len) ends the run at the
\* jump
C11_JumpsChecked ==
    (Fetched /\ JumpReached /\ ~(0 <= JumpTarget /\ JumpTarget < bytecode_len))
    => (Left /\ es = BytecodeAccessViolation)

\* what the code keeps: pc <= bytecode_len at every fetch, a jump to a
\* target above bytecode_len ends the run at the jump, and a fetch at
\* pc = bytecode_len reads nothing and ends the run
C11_FetchUpToEnd ==
    /\ st = "loop" => pc <= bytecode_len
    /\ (Fetched /\ JumpReached /\ ~(0 <= JumpTarget /\ JumpTarget <= bytecode_len))
       => (Left /\ es = BytecodeAccessViolation)
    /\ (hist # <<>> /\ Pre.pc >= bytecode_len)
       => (Left /\ es = BytecodeAccessViolation /\ rd = 0 /\ sp = Pre.sp)

\* the entry-point lookup of the last step (Boot) read outside the image
BootReadOutside == hist = <<>> /\ st # "init" /\ rd > bytecode_len

\* C12: every read of the image - the two reads of the entry-point lookup,
\* the opcode and immediate fetches, the pool and descriptor reads - touches
\* only bytes at offsets in [0, bytecode_len); a read that would end past
\* bytecode_len is not made and gives BytecodeAccessViolation.
C12_ReadsInImage ==
    /\ rd <= bytecode_len
    /\ (hist = <<>> /\ st # "init"
        /\ (pool_offset + usize > bytecode_len
            \/ ToNat(ImageAt(pool_offset, usize)) + usize > bytecode_len))
       => (Left /\ es = BytecodeAccessViolation)

\* the reads of the loop alone: next_prg! and next_pool! read inside the
\* image or not at all
C12_LoopReads ==
    /\ hist # <<>> => rd <= bytecode_len
    /\ (hist # <<>> /\ st = "loop") => rd > Pre.pc
    /\ (Fetched /\ Kind \in {"BPush", "SPush", "IPush", "LPush"}
        /\ ~HasImm(1, WidthOf(Kind)))
       => (Left /\ es = BytecodeAccessViolation /\ rd = Pre.pc + 1)

\* the byte the last iteration fetched
FetchedByte == image[Pre.pc + 1]

\* C13: a fetched byte 0x31..0xFF ends the run with UnknownOpcode and leaves
\* sp, bp and the stack as they were; the bytes 0x00..0x30 decode to 49
\* distinct opcodes, none of them Unknown, and never give UnknownOpcode.
C13_UnknownOpcode ==
    /\ Cardinality({OpcodeFrom(b) : b \in 0..48} \ {"Unknown"}) = 49
    /\ \A b \in 49..255 : OpcodeFrom(b) = "Unknown"
    /\ (Fetched /\ FetchedByte >= 49)
       => /\ Left /\ es = UnknownOpcode
          /\ sp = Pre.sp /\ bp = Pre.bp /\ stack = Pre.stack
          /\ opcode = FetchedByte
    /\ (Fetched /\ FetchedByte <= 48) => es # UnknownOpcode

\* the byte 0x80, fetched after a push, has ended a run with UnknownOpcode
C13_Reached ==
    /\ Fetched /\ FetchedByte = 128 /\ Pre.sp = 20
    /\ st = "returned" /\ ret = UnknownOpcode /\ sp = 20

\* The variable access of the last iteration: its width, its index, sp at
\* the access (for a store, after the value has been popped) and the stack
\* offset of the variable.
VarKinds == {"Load", "Load2", "Store", "Store2"}
VarW     == WidthOf(Kind)
VarI     == ToNat(ImmAt(1, 2))
VarSp    == IF Kind \in {"Store", "Store2"} THEN Pre.sp - VarW ELSE Pre.sp
VarAddr  == Pre.bp + 16 + 4 * VarI
VarFits  == VarSp - Pre.bp >= 16 /\ VarSp - Pre.bp - 16 >= 4 * VarI + VarW

\* the access has been made: a load has pushed the variable, a store has
\* written the popped value to it and to no other byte
VarDone ==
    /\ st = "loop" /\ es = Success /\ bp = Pre.bp
    /\ VarAddr + VarW <= VarSp
    /\ IF Kind \in {"Load", "Load2"}
       THEN /\ sp = Pre.sp + VarW
            /\ StackAt(stack, Pre.sp, VarW) = StackAt(Pre.stack, VarAddr, VarW)
            /\ \A a \in 0..(Pre.sp - 1) :
                  StackByte(stack, a) = StackByte(Pre.stack, a)
       ELSE /\ sp = Pre.sp - VarW
            /\ StackAt(stack, VarAddr, VarW) = StackAt(Pre.stack, Pre.sp - VarW, VarW)
            /\ \A a \in 0..(max_stack_size - 1) :
                  (a < VarAddr \/ a >= VarAddr + VarW)
                     => StackByte(stack, a) = StackByte(Pre.stack, a)

ArgAt(k, j) ==
    StackAt(hist[k].stack, hist[k].sp - 4 * (DescAt(k).arg_len - j), 4)

\* C15: after an Invoke of a function with arg_len = k that did not fault,
\* variable j of the callee holds the argument pushed j-th by the caller,
\* for every j < k; a load j executed first in the callee pushes that word;
\* and the callee's frame starts where the arguments were, so that they are
\* no longer on the caller's operand stack.
C15_Arguments ==
    /\ (FetchedAt(1, {"Invoke"}) /\ st = "loop")
       => /\ bp = Pre.sp - 4 * DescAt(1).arg_len
          /\ \A j \in 0..(DescAt(1).arg_len - 1) :
                StackAt(stack, bp + 16 + 4 * j, 4) = ArgAt(1, j)
    /\ (/\ FetchedAt(2, {"Invoke"}) /\ FetchedAt(1, {"Load"}) /\ HasImm(1, 2)
        /\ Pre.pc = DescAt(2).start_addr
        /\ VarI < DescAt(2).arg_len
        /\ Pre.sp + 4 <= max_stack_size)
       => /\ st = "loop" /\ sp = Pre.sp + 4
          /\ StackAt(stack, Pre.sp, 4) = ArgAt(2, VarI)

\* a function of three arguments, called on the words 1, 2, 3, has loaded
\* its variable 1 first and got 2
C15_Reached ==
    /\ FetchedAt(2, {"Invoke"}) /\ DescAt(2).arg_len = 3
    /\ ArgAt(2, 0) = U32(1) /\ ArgAt(2, 1) = U32(2) /\ ArgAt(2, 2) = U32(3)
    /\ FetchedAt(1, {"Load"}) /\ Pre.pc = DescAt(2).start_addr /\ VarI = 1
    /\ st = "loop" /\ StackAt(stack, sp - 4, 4) = U32(2)
    /\ bp = hist[2].sp - 12

\* C16: immediately after an Invoke that did not fault, of a function whose
\* descriptor has var_len variables, sp - bp = 16 + 4 * var_len and
\* pc = start_addr.
C16_FrameSize ==
    (FetchedAt(1, {"Invoke"}) /\ st = "loop")
    => /\ sp - bp = 16 + 4 * DescAt(1).var_len
       /\ pc = DescAt(1).start_addr

\* a function with 3 variables, 1 of them an argument, has been invoked
C16_Reached ==
    /\ FetchedAt(1, {"Invoke"}) /\ st = "loop"
    /\ DescAt(1).var_len = 3 /\ DescAt(1).arg_len = 1
    /\ sp = bp + 28 /\ bp = Pre.sp - 4 /\ pc = DescAt(1).start_addr

\* C17 as stated: bp is the offset of the variable table, variable i being
\* the 4 bytes at bp + 4 * i, and the saved bp of the caller followed by the
\* return address lie at [bp - 16, bp); Invoke builds this and Ret reads the
\* return address and the saved bp from there.
C17_AnchorBelowBp ==
    /\ (FetchedAt(1, {"Invoke"}) /\ st = "loop")
       => /\ bp >= 16
          /\ StackAt(stack, bp - 16, 8) = LE(Pre.bp, 8)
          /\ StackAt(stack, bp - 8, 8) = LE(Pre.pc + 1 + usize, 8)
          /\ \A j \in 0..(DescAt(1).arg_len - 1) :
                StackAt(stack, bp + 4 * j, 4) = ArgAt(1, j)
    /\ (FetchedAt(1, {"Load", "Load2"}) /\ HasImm(1, 2) /\ st = "loop")
       => StackAt(stack, Pre.sp, VarW) = StackAt(Pre.stack, Pre.bp + 4 * VarI, VarW)
    /\ (FetchedAt(1, {"Ret"}) /\ st = "loop")
       => /\ Pre.bp >= 16
          /\ pc = ToNat(StackAt(Pre.stack, Pre.bp - 8, 8))
          /\ bp = ToNat(StackAt(Pre.stack, Pre.bp - 16, 8))

\* C17, amended: bp is the offset of the frame's anchor: the saved bp of the
\* caller lies at [bp, bp + 8), the return address at [bp + 8, bp + 16), and
\* variable i is the 4 bytes at bp + 16 + 4 * i; Invoke builds this, load
\* and store address the variables so, and Ret reads the return address and
\* the saved bp from the anchor.
C17_AnchorAtBp ==
    /\ (FetchedAt(1, {"Invoke"}) /\ st = "loop")
       => /\ StackAt(stack, bp, 8) = LE(Pre.bp, 8)
          /\ StackAt(stack, bp + 8, 8) = LE(Pre.pc + 1 + usize, 8)
          /\ \A j \in 0..(DescAt(1).arg_len - 1) :
                StackAt(stack, bp + 16 + 4 * j, 4) = ArgAt(1, j)
    /\ (FetchedAt(1, {"Load", "Load2"}) /\ HasImm(1, 2) /\ st = "loop")
       => StackAt(stack, Pre.sp, VarW)
             = StackAt(Pre.stack, Pre.bp + 16 + 4 * VarI, VarW)
    /\ (FetchedAt(1, {"Store", "Store2"}) /\ HasImm(1, 2) /\ st = "loop")
       => StackAt(stack, Pre.bp + 16 + 4 * VarI, VarW)
             = StackAt(Pre.stack, Pre.sp - VarW, VarW)
    /\ (FetchedAt(1, {"Ret"}) /\ st = "loop")
       => /\ pc = ToNat(StackAt(Pre.stack, Pre.bp + 8, 8))
          /\ bp = ToNat(StackAt(Pre.stack, Pre.bp, 8))
          /\ sp = Pre.bp

\* a function invoked from a callee's frame has loaded its variable 0 and
\* returned to the callee
C17_Reached ==
    /\ FetchedAt(3, {"Invoke"}) /\ hist[3].bp > 0 /\ DescAt(3).arg_len > 0
    /\ FetchedAt(2, {"Load"}) /\ hist[2].bp = hist[3].sp - 4 * DescAt(3).arg_len
    /\ FetchedAt(1, {"Ret"}) /\ st = "loop"
    /\ StackAt(Pre.stack, Pre.bp, 8) = LE(hist[3].bp, 8)
    /\ bp = hist[3].bp /\ pc = hist[3].pc + 1 + usize /\ sp = Pre.bp

APushKinds == {"BAPush", "SAPush", "IAPush", "LAPush"}

\* the last iteration has allocated a buffer of n elements of its width and
\* left the buffer's address on top of the stack
Allocated(n) ==
    /\ Len(heap) = Len(Pre.heap) + 1
    /\ heap[Len(heap)].live
    /\ SubSeq(heap[Len(heap)].buf, 1, usize) = LE(ToNat(n) * WidthOf(Kind), usize)
    /\ Len(heap[Len(heap)].buf) = usize + ToNat(n) * WidthOf(Kind)
    /\ StackAt(stack, sp - usize, usize) = ArrAddr(Len(heap))

\* C18: bapush/sapush/iapush/lapush (element width s = 1/2/4/8) have no
\* immediate: they pop a u64 element count n from the stack, allocate a
\* buffer whose first 8 bytes hold n * s and push its 8-byte address, so
\* that pc advances by 1 and sp is as before.
C18_ArrayPushPops ==
    (/\ Fetched /\ Kind \in APushKinds
     /\ Pre.sp >= Pre.bp + 16 + usize
     /\ ToNat(StackAt(Pre.stack, Pre.sp - usize, usize)) * WidthOf(Kind)
           <= MaxArrBytes)
    => /\ st = "loop"
       /\ pc = Pre.pc + 1
       /\ sp = Pre.sp
       /\ Allocated(StackAt(Pre.stack, Pre.sp - usize, usize))

\* what stack_push_arr! does: the element count is the u64 immediate, pc
\* advances by 9, nothing is popped and sp grows by the 8 bytes of the
\* address
C18_ArrayPushImmediate ==
    (/\ Fetched /\ Kind \in APushKinds /\ HasImm(1, usize)
     /\ ToNat(ImmAt(1, usize)) * WidthOf(Kind) <= MaxArrBytes)
    => IF Pre.sp + usize <= max_stack_size
       THEN /\ st = "loop"
            /\ pc = Pre.pc + 1 + usize
            /\ sp = Pre.sp + usize
            /\ \A a \in 0..(Pre.sp - 1) :
                  StackByte(stack, a) = StackByte(Pre.stack, a)
            /\ Allocated(ImmAt(1, usize))
       ELSE Left /\ es = StackOverflow /\ sp = Pre.sp

\* the entry point the lookup finds when its two reads are inside the image
EntryInImage ==
    /\ pool_offset + usize <= bytecode_len
    /\ ToNat(ImageAt(pool_offset, usize)) + usize <= bytecode_len
entry_point_pc == ToNat(ImageAt(ToNat(ImageAt(pool_offset, usize)), usize))

\* the loop is entered with the entry frame on the stack
EntryFrameBuilt ==
    (hist = <<>> /\ st = "loop")
    => /\ StackAt(stack, 0, usize) = LE(0, usize)
       /\ StackAt(stack, usize, usize) = LE(bytecode_len - 1, usize)
       /\ Len(stack) = 2 * usize
       /\ bp = 0 /\ sp = 2 * usize
       /\ EntryInImage => pc = entry_point_pc

\* the k-th iteration back was a Ret in the entry frame
EntryRetAt(k) ==
    FetchedAt(k, {"Ret"}) /\ hist[k].bp = 0 /\ hist[k].sp >= 2 * usize

\* C19: before the first opcode the stack holds the entry frame - saved bp 0
\* in bytes [0, 8), return address bytecode_len - 1 in [8, 16), bp = 0,
\* sp = 16, pc the entry point - and in every image a Ret executed in the
\* entry frame halts the run within two further opcode fetches, whatever
\* the last byte of the image is.
C19_EntryRetHalts ==
    /\ EntryFrameBuilt
    /\ EntryRetAt(3) => st # "loop"

\* The same for a Ret that finds the return address as the bootstrap left
\* it: the run continues at the last byte of the image with sp = bp = 0, and
\* has ended after two fetches.
C19_SentinelHalts ==
    /\ EntryFrameBuilt
    /\ \A k \in 1..3 :
          (EntryRetAt(k) /\ StackAt(hist[k].stack, usize, usize)
                               = LE(bytecode_len - 1, usize))
          => /\ k = 3 => st # "loop"
             /\ k = 2 => /\ Pre.pc = bytecode_len - 1
                         /\ Pre.sp = 0 /\ Pre.bp = 0
                         /\ st = "loop" => pc = bytecode_len

\* C20: every way run ends - the fault before the loop (an entry point at
\* or past bytecode_len gives BytecodeAccessViolation with no opcode fetched
\* and nothing pushed), the Exit opcode, a fault in the loop - leads to the
\* one epilogue, which frees the stack exactly once, at the address malloc
\* gave (the cursor stack_ptr less sp is that address in every state), and
\* returns the status recorded.
C20_SameEpilogue ==
    /\ [](st \in {"loop", "break", "returned"} => stack_ptr - sp = StackAddr)
    /\ [](IF st = "returned" THEN freed = <<StackAddr>> /\ ret = es
          ELSE freed = <<>>)
    /\ []((EntryInImage /\ entry_point_pc >= bytecode_len /\ st # "init")
             => (hist = <<>> /\ Left))
    /\ []((hist = <<>> /\ Left)
             => (es = BytecodeAccessViolation /\ sp = 0 /\ stack = <<>>))
    /\ [][(st = "loop" /\ st' \notin {"loop", "abort"}) => st' = "break"]_vars
    /\ [][st = "break"
            => /\ st' = "returned"
               /\ freed' = <<stack_ptr - sp>>
               /\ ret' = es
               /\ UNCHANGED << sp, stack_ptr, es >>]_vars

\* a run that faulted in a callee with reserved variables and words pushed
\* has returned the fault and freed the stack
C20_Reached ==
    /\ st = "returned" /\ ret = StackOverflow /\ es = StackOverflow
    /\ bp > 0 /\ sp > bp + 16 /\ stack_ptr = StackAddr + sp
    /\ freed = <<StackAddr>>

\* scenario S6: the address of its entry code, and the addresses of its
\* opcodes: ipush 0, ifnot +3, ipush 1, the first exit, the second exit
S6Entry == CodeBase(<<>>)
S6IfNot == S6Entry + 5
S6Push1 == S6Entry + 8
S6Exit1 == S6Entry + 13
S6Exit2 == S6Entry + 14

\* C21 as stated: S6 ends with Success, its ifnot +3 is taken and lands on
\* the second exit, which is executed; ipush 1 and the first exit are not.
C21_SecondExit ==
    image = ProgS6
    => /\ hist # <<>> => Pre.pc \notin {S6Push1, S6Exit1}
       /\ (hist # <<>> /\ Pre.pc = S6IfNot) => (st = "loop" /\ pc = S6Exit2)
       /\ Left => (es = Success /\ Pre.pc = S6Exit2)

\* C21: S6 ends with Success by the taken branch; the ifnot +3, counted from
\* the byte after its i16, lands 3 bytes into the 5 bytes of ipush 1, on the
\* zero bytes of its immediate: two nop are executed and then the first exit.
\* ipush 1 and the second exit are never executed.  While the loop runs pc
\* grows with every opcode and stays at or below the first exit, so that
\* the run ends after five opcodes.
C21_FirstExit ==
    image = ProgS6
    => /\ hist # <<>>
            => Pre.pc \in {S6Entry, S6IfNot, S6Push1 + 3, S6Push1 + 4, S6Exit1}
       /\ (hist # <<>> /\ st = "loop") => (Pre.pc < pc /\ pc <= S6Exit1)
       /\ st \in {"init", "loop", "break", "returned"}
       /\ (hist # <<>> /\ Pre.pc = S6IfNot)
            => (st = "loop" /\ pc = S6IfNot + 3 + 3 /\ sp = Pre.sp - 4)
       /\ (hist # <<>> /\ Pre.pc \in {S6Push1 + 3, S6Push1 + 4})
            => (Kind = "Nop" /\ st = "loop" /\ pc = Pre.pc + 1)
       /\ Left => (es = Success /\ Pre.pc = S6Exit1 /\ Kind = "Exit")
       /\ st = "returned" => ret = Success

\* S6 has returned Success after the first exit
C21_Reached ==
    /\ image = ProgS6 /\ st = "returned" /\ ret = Success
    /\ Pre.pc = S6Exit1 /\ Kind = "Exit"
    /\ Len(hist) >= 4 /\ hist[4].pc = S6IfNot

\* the last iteration fetched an Invoke and read the descriptor of its
\* function; InvVar and InvArg are the var_len and arg_len read
InvokeRead == FetchedAt(1, {"Invoke"}) /\ Running(DescAt(1).m)
InvVar == DescAt(1).var_len
InvArg == DescAt(1).arg_len

\* the Invoke of the last iteration was refused: StackAccessViolation, bp as
\* it was, and nothing written to the stack - no saved bp, no return address
InvokeRefused ==
    /\ Left /\ es = StackAccessViolation
    /\ bp = Pre.bp /\ stack = Pre.stack /\ sp <= Pre.sp
    /\ pp = DescAt(1).m.pp /\ pc = Pre.pc + 1 + usize

InFrameOf(k) ==
    /\ k >= 2 /\ FetchedAt(k, {"Invoke"})
    /\ Running(hist[k - 1]) /\ hist[k - 1].pc = DescAt(k).start_addr
    /\ hist[k - 1].bp = hist[k].sp - 4 * DescAt(k).arg_len
    /\ \A j \in 1..(k - 1) : ~FetchedAt(j, {"Invoke", "Ret"})

\* C23: while the frame an Invoke built for a function with var_len
\* variables is the current one, sp >= bp + 16 + 4 * var_len: no opcode
\* removes bytes of the variable table from the stack.  (Stated for the
\* states in which the run goes on.)
C23_VarTableReserved ==
    \A k \in 2..Len(hist) :
        (InFrameOf(k) /\ st = "loop")
        => /\ bp = hist[k - 1].bp
           /\ sp >= bp + 16 + 4 * DescAt(k).var_len

\* what the code keeps: in the frame an Invoke built, sp >= bp + 16
C23_AnchorReserved ==
    \A k \in 2..Len(hist) :
        (InFrameOf(k) /\ st # "abort")
        => /\ bp = hist[k - 1].bp
           /\ sp >= bp + 16

RECURSIVE CallDepth(_, _)
\* the depth of calls after the iterations j, j - 1, .. 2, starting from
\* depth d: an Invoke adds one, a Ret takes one; -1 once a Ret found depth 0
CallDepth(j, d) ==
    IF j < 2 \/ d < 0 THEN d
    ELSE CallDepth(j - 1,
                   IF FetchedAt(j, {"Invoke"}) THEN d + 1
                   ELSE IF FetchedAt(j, {"Ret"}) THEN d - 1
                   ELSE d)

\* The Invoke of the k-th iteration back built its frame and the last
\* iteration is its matching Ret: the Invokes and Rets between are pairs.
MatchingRet(k) ==
    /\ k >= 2 /\ FetchedAt(k, {"Invoke"}) /\ FetchedAt(1, {"Ret"})
    /\ Running(hist[k - 1]) /\ hist[k - 1].pc = DescAt(k).start_addr
    /\ hist[k - 1].bp = hist[k].sp - 4 * DescAt(k).arg_len
    /\ CallDepth(k - 1, 0) = 0

\* the opcodes that write through a pointer taken from the stack
AStoreKinds == {"BAStore", "SAStore", "IAStore", "LAStore"}

\* C24: between an Invoke and its matching Ret, while the run goes on, no
\* byte of the stack below the callee's variable table - the caller's
\* frames and the callee's saved bp and return address - is written, and the
\* matching Ret continues after the Invoke's immediate with the caller's bp
\* and with sp = sp before the Invoke - 4 * arg_len.
C24_CallerIntact ==
    \A k \in 2..Len(hist) :
        /\ (InFrameOf(k) /\ st = "loop")
           => StackAt(stack, 0, bp + 16) = StackAt(hist[k - 1].stack, 0, bp + 16)
        /\ (MatchingRet(k) /\ st = "loop")
           => /\ pc = hist[k].pc + 1 + usize
              /\ bp = hist[k].bp
              /\ sp = hist[k].sp - 4 * DescAt(k).arg_len

\* what the code keeps: the same for callees that store to no array
C24_IntactButArrays ==
    \A k \in 2..Len(hist) :
        (\A j \in 1..(k - 1) : ~FetchedAt(j, AStoreKinds))
        => /\ (InFrameOf(k) /\ st = "loop")
              => StackAt(stack, 0, bp + 16)
                    = StackAt(hist[k - 1].stack, 0, bp + 16)
           /\ (MatchingRet(k) /\ st = "loop")
              => /\ pc = hist[k].pc + 1 + usize
                 /\ bp = hist[k].bp
                 /\ sp = hist[k].sp - 4 * DescAt(k).arg_len

\* a callee has stored 8 over its return address and its Ret has gone there
C24_RetElsewhere ==
    /\ image = ProgForgedArgs(U64(1), U64(8))
    /\ MatchingRet(3) /\ FetchedAt(2, {"LAStore"})
    /\ st = "loop" /\ pc = 8 /\ bp = hist[3].bp /\ sp = hist[3].sp - 24

\* enum ExitStatus in declaration order
ExitStatusOrder ==
    << Success, UnknownOpcode, UnknownCallNumber, BytecodeAccessViolation,
       StackOverflow, StackAccessViolation, ArrayAccessViolation,
       ArithmeticOverflow, DivideByZero, Unknown >>

\* the last iteration fetched an Exit
ExitExecuted == Fetched /\ Kind = "Exit"

\* C25: run returns Success iff an Exit opcode was executed: the loop is
\* left by an Exit, with Success recorded, or by a fault, with a status
\* other than Success; an Exit always leaves it; the status returned is the
\* one recorded and is one of the ten values 0..9, which are the statuses of
\* the enum in declaration order.
C25_SuccessIffExit ==
    /\ Left => (es = Success <=> ExitExecuted)
    /\ ExitExecuted => (Left /\ sp = Pre.sp /\ bp = Pre.bp /\ pc = Pre.pc + 1)
    /\ (st = "loop" /\ hist # <<>>) => (Fetched /\ Kind # "Exit")
    /\ st \in {"init", "loop"} => es = Success
    /\ st = "returned"
       => /\ ret = es /\ ret \in 0..9
          /\ ret = Success <=> ExitExecuted
    /\ \A v \in 0..9 : ExitStatusOrder[v + 1] = v /\ ExitStatusFrom(v) = v
    /\ ExitStatusFrom(10) = Unknown

\* the array round trip S5 has returned Success after its Exit
C25_Reached ==
    /\ image = ProgS5 /\ st = "returned" /\ ret = Success
    /\ ExitExecuted /\ FetchedAt(2, {"Drop"})
====
